---- MODULE Spec2Model ----
(***************************************************************************)
(* The clickhousedbops_table resource: the Terraform handlers of           *)
(* pkg/resource/table/table.go, the catalog client of                      *)
(* internal/dbops/table.go and the statement builders of                   *)
(* internal/querybuilder, run against a ClickHouse catalog.                *)
(*                                                                         *)
(* A handler is one action.  The functions it calls are operators that     *)
(* thread a "world" w through the calls: the catalog, the statements sent  *)
(* to the executor so far, and the faults of this invocation (the call     *)
(* that returns a transport error, the call before which the addressed     *)
(* table is dropped out of band).                                          *)
(***************************************************************************)
EXTENDS Integers, Sequences, FiniteSets, TLC

\* ---------------------------------------------------------------- bounds
MaxCols == 2    \* longest declared column list of a plan
MaxUuid == 2    \* tables the database creates in one behaviour

\* ------------------------------------------------------------ value space
Nil == "<nil>"                    \* a nil *string / a null types.String
None == <<>>                      \* a nil *Table / a null state
Some(t) == <<t>>                  \* a non-nil pointer
ColNames == {"a", "b", "c"}
ColTypes == {"UInt64", "String"}
DbName == "db"
TableNames == {"t", "t_renamed"}

\* the element of a one-element set; { e : x \in {call} } names a call's result
The(S) == CHOOSE x \in S : TRUE

\* types.Bool.ValueBool(): null and unknown read as false
ValueBool(b) == b = "true"

\* types.String.ValueString(): null reads as ""
ValueString(s) == IF s = Nil THEN "" ELSE s

\* ------------------------------------------------------- string helpers
\* strings.Index(s, sub): first position (1-based) of sub in s, 0 if none
RECURSIVE IndexFrom(_, _, _)
IndexFrom(s, sub, i) ==
    IF i + Len(sub) - 1 > Len(s) THEN 0
    ELSE IF SubSeq(s, i, i + Len(sub) - 1) = sub THEN i
    ELSE IndexFrom(s, sub, i + 1)

Index(s, sub) == IndexFrom(s, sub, 1)

\* strings.TrimSpace(s)
RECURSIVE TrimSpace(_)
TrimSpace(s) ==
    IF Len(s) = 0 THEN s
    ELSE IF SubSeq(s, 1, 1) = " " THEN TrimSpace(SubSeq(s, 2, Len(s)))
    ELSE IF SubSeq(s, Len(s), Len(s)) = " " THEN TrimSpace(SubSeq(s, 1, Len(s) - 1))
    ELSE s

\* strings.Split(s, sep) for a one-character separator
RECURSIVE Split(_, _)
Split(s, sep) ==
    The({ IF i = 0 THEN <<s>>
          ELSE <<SubSeq(s, 1, i - 1)>> \o Split(SubSeq(s, i + 1, Len(s)), sep)
          : i \in {Index(s, sep)} })

\* strings.Join(parts, sep)
RECURSIVE Join(_, _)
Join(parts, sep) ==
    IF Len(parts) = 0 THEN ""
    ELSE IF Len(parts) = 1 THEN parts[1]
    ELSE parts[1] \o sep \o Join(Tail(parts), sep)

\* parseKeyColumns: comma-split, trim, drop the empty parts
RECURSIVE parseKeyColumnsParts(_)
parseKeyColumnsParts(parts) ==
    IF Len(parts) = 0 THEN <<>>
    ELSE The({ (IF trimmed # "" THEN <<trimmed>> ELSE <<>>)
               \o parseKeyColumnsParts(Tail(parts))
               : trimmed \in {TrimSpace(Head(parts))} })

parseKeyColumns(key) ==
    IF key = "" THEN <<>> ELSE parseKeyColumnsParts(Split(key, ","))

\* the names of a column list, as a set
NamesOf(cols) == {cols[i].name : i \in 1..Len(cols)}

\* the elements of a sequence, as a set
Range(s) == {s[i] : i \in 1..Len(s)}

\* a Go map as a function; the empty map
EmptyMap == [k \in {} |-> ""]

\* m[key] = value
MapPut(m, key, value) ==
    [k \in (DOMAIN m) \cup {key} |-> IF k = key THEN value ELSE m[k]]

\* parseEngineFullForTTLAndSettings: the settings loop over the comma-split pairs
RECURSIVE parseSettingsPairs(_, _)
parseSettingsPairs(pairs, settings) ==
    IF Len(pairs) = 0 THEN settings
    ELSE The({ parseSettingsPairs(Tail(pairs),
                   IF Len(parts) = 2
                   THEN MapPut(settings, TrimSpace(parts[1]), TrimSpace(parts[2]))
                   ELSE settings)
               : parts \in {Split(TrimSpace(Head(pairs)), "=")} })

\* parseEngineFullForTTLAndSettings, but the TTL runs to the end of the text
parseEngineFullTTLToEnd(engineFull) ==
    The({ LET rest == SubSeq(engineFull, idx + 4, Len(engineFull))
              settingsStr == SubSeq(engineFull, sidx + 9, Len(engineFull))
          IN [ttl |-> IF idx = 0 THEN "" ELSE TrimSpace(rest),
              settings |-> IF sidx = 0 THEN EmptyMap
                           ELSE parseSettingsPairs(Split(settingsStr, ","),
                                                   EmptyMap)]
          : idx \in {Index(engineFull, "TTL ")},
            sidx \in {Index(engineFull, "SETTINGS ")} })

\* parseEngineFullForTTLAndSettings(engineFull) -> (ttl, settings)
parseEngineFullForTTLAndSettings(engineFull) ==
    The({ LET rest == SubSeq(engineFull, idx + 4, Len(engineFull))
              settingsStr == SubSeq(engineFull, sidx + 9, Len(engineFull))
          IN [ttl |-> IF idx = 0 THEN ""
                      ELSE The({ IF ttlEnd = 0 THEN TrimSpace(rest)
                                 ELSE TrimSpace(SubSeq(rest, 1, ttlEnd - 1))
                                 : ttlEnd \in {Index(rest, " SETTINGS")} }),
              settings |-> IF sidx = 0 THEN EmptyMap
                           ELSE parseSettingsPairs(Split(settingsStr, ","),
                                                   EmptyMap)]
          : idx \in {Index(engineFull, "TTL ")},
            sidx \in {Index(engineFull, "SETTINGS ")} })

\* ------------------------------------------------------------ statements
\* A statement handed to the executor.  kind is the statement's verb; the
\* other fields are the values the builder interpolates into the text.
NoOpts ==
    [engine |-> "", order_by |-> <<>>, partition_by |-> Nil, primary_key |-> <<>>,
     sample_by |-> Nil, ttl |-> Nil, settings |-> EmptyMap, comment |-> Nil]

Stmt(kind, database, name, uuid, columns, columnNames, opts, cluster) ==
    [kind |-> kind, database |-> database, name |-> name, uuid |-> uuid,
     columns |-> columns, columnNames |-> columnNames, opts |-> opts,
     cluster |-> cluster]

NoStmt == Stmt("", "", "", 0, <<>>, <<>>, NoOpts, Nil)

DDLKinds == {"CREATE TABLE", "DROP TABLE", "ADD COLUMN", "DROP COLUMN"}
QueryKinds == {"SELECT tables BY uuid", "SELECT uuid BY name", "SELECT columns"}

\* createTableQueryBuilder.Build
BuildCreateTable(table, clusterName) ==
    IF table.DatabaseName = "" \/ table.Name = "" \/ Len(table.Columns) = 0
       \/ table.Engine = ""
    THEN [err |-> TRUE, sql |-> NoStmt]
    ELSE [err |-> FALSE,
          sql |-> Stmt("CREATE TABLE", table.DatabaseName, table.Name, 0,
                       table.Columns, <<>>,
                       [engine |-> table.Engine, order_by |-> table.OrderBy,
                        partition_by |-> table.PartitionBy,
                        primary_key |-> table.PrimaryKey,
                        sample_by |-> table.SampleBy, ttl |-> table.TTL,
                        settings |-> table.Settings, comment |-> table.Comment],
                       clusterName)]

\* dropTableQueryBuilder.Build
BuildDropTable(databaseName, tableName, clusterName) ==
    IF databaseName = "" \/ tableName = ""
    THEN [err |-> TRUE, sql |-> NoStmt]
    ELSE [err |-> FALSE,
          sql |-> Stmt("DROP TABLE", databaseName, tableName, 0, <<>>, <<>>,
                       NoOpts, clusterName)]

\* AlterTableAddColumnQueryBuilder.Build
BuildAlterTableAddColumn(databaseName, tableName, columns, clusterName) ==
    IF databaseName = "" \/ tableName = "" \/ Len(columns) = 0
    THEN [err |-> TRUE, sql |-> NoStmt]
    ELSE [err |-> FALSE,
          sql |-> Stmt("ADD COLUMN", databaseName, tableName, 0, columns, <<>>,
                       NoOpts, clusterName)]

\* AlterTableDropColumnQueryBuilder.Build
BuildAlterTableDropColumn(databaseName, tableName, columnNames, clusterName) ==
    IF databaseName = "" \/ tableName = "" \/ Len(columnNames) = 0
    THEN [err |-> TRUE, sql |-> NoStmt]
    ELSE [err |-> FALSE,
          sql |-> Stmt("DROP COLUMN", databaseName, tableName, 0, <<>>,
                       columnNames, NoOpts, clusterName)]

\* querybuilder.NewSelect(...).Where(...).Build() of the three catalog queries
SelectTablesByUuid(uuid, clusterName) ==
    Stmt("SELECT tables BY uuid", "", "", uuid, <<>>, <<>>, NoOpts, clusterName)

SelectUuidByName(databaseName, tableName, clusterName) ==
    Stmt("SELECT uuid BY name", databaseName, tableName, 0, <<>>, <<>>, NoOpts,
         clusterName)

SelectColumns(databaseName, tableName, clusterName) ==
    Stmt("SELECT columns", databaseName, tableName, 0, <<>>, <<>>, NoOpts,
         clusterName)

\* ------------------------------------------------- the executor (ClickHouse)
\* The catalog is a set of rows of system.tables, each carrying the rows of
\* system.columns of its table.  uuid is a positive number; 0 is the empty
\* string a Go string starts as.
CatalogColumn(col) ==
    [name |-> col.name, type |-> col.type,
     default_expression |-> ValueString(col.default),
     comment |-> ValueString(col.comment)]

\* the text of a SETTINGS clause as the server prints it
RECURSIVE SettingsText(_)
SettingsText(settings) ==
    IF DOMAIN settings = {} THEN ""
    ELSE LET k == CHOOSE x \in DOMAIN settings : TRUE
             others == [y \in (DOMAIN settings) \ {k} |-> settings[y]]
         IN k \o " = " \o settings[k]
            \o (IF DOMAIN others = {} THEN "" ELSE ", " \o SettingsText(others))

\* the engine family the server reports: the text before the parameter list
EngineFamily(engine) ==
    The({ IF i = 0 THEN engine ELSE SubSeq(engine, 1, i - 1)
          : i \in {Index(engine, "(")} })

\* the row the server files for a CREATE TABLE statement
CatalogRow(uuid, sql) ==
    The({ [uuid |-> uuid, database |-> sql.database, name |-> sql.name,
           engine |-> family,
           partition_key |-> ValueString(sql.opts.partition_by),
           sorting_key |-> sorting,
           primary_key |-> IF Len(sql.opts.primary_key) > 0
                           THEN Join(sql.opts.primary_key, ", ") ELSE sorting,
           sampling_key |-> ValueString(sql.opts.sample_by),
           engine_full |-> family
               \o (IF sorting = "" THEN "" ELSE " ORDER BY " \o sorting)
               \o (IF sql.opts.ttl = Nil THEN "" ELSE " TTL " \o sql.opts.ttl)
               \o (IF DOMAIN sql.opts.settings = {} THEN ""
                   ELSE " SETTINGS " \o SettingsText(sql.opts.settings)),
           comment |-> ValueString(sql.opts.comment),
           columns |-> [i \in 1..Len(sql.columns) |-> CatalogColumn(sql.columns[i])]]
          : sorting \in {Join(sql.opts.order_by, ", ")},
            family \in {EngineFamily(sql.opts.engine)} })

\* the rows a statement addresses: by uuid or by database and name
Target(cat, sql) ==
    IF sql.kind = "SELECT tables BY uuid"
    THEN {r \in cat : r.uuid = sql.uuid}
    ELSE {r \in cat : r.database = sql.database /\ r.name = sql.name}

\* the server accepts the statement
Applicable(cat, sql) ==
    \E rows \in {Target(cat, sql)} :
       CASE sql.kind = "CREATE TABLE" -> rows = {}
         [] sql.kind = "DROP TABLE" -> rows # {}
         [] sql.kind = "ADD COLUMN" ->
                /\ rows # {}
                /\ \A r \in rows : NamesOf(sql.columns) \cap NamesOf(r.columns) = {}
         [] sql.kind = "DROP COLUMN" ->
                /\ rows # {}
                /\ \A r \in rows :
                      /\ Range(sql.columnNames) \subseteq NamesOf(r.columns)
                      /\ Range(sql.columnNames)
                            \cap Range(parseKeyColumns(r.sorting_key)) = {}
         [] OTHER -> TRUE

\* columns of a row without the dropped ones, in order
RECURSIVE WithoutColumns(_, _)
WithoutColumns(columns, names) ==
    IF Len(columns) = 0 THEN <<>>
    ELSE (IF Head(columns).name \in names THEN <<>> ELSE <<Head(columns)>>)
         \o WithoutColumns(Tail(columns), names)

\* the catalog after the server ran the statement
Apply(cat, uuid, sql) ==
    The({ CASE sql.kind = "CREATE TABLE" -> cat \cup {CatalogRow(uuid, sql)}
            [] sql.kind = "DROP TABLE" -> cat \ rows
            [] sql.kind = "ADD COLUMN" ->
                   (cat \ rows) \cup
                   {[r EXCEPT !.columns = @ \o
                       [i \in 1..Len(sql.columns) |-> CatalogColumn(sql.columns[i])]]
                    : r \in rows}
            [] sql.kind = "DROP COLUMN" ->
                   (cat \ rows) \cup
                   {[r EXCEPT !.columns = WithoutColumns(@, Range(sql.columnNames))]
                    : r \in rows}
            [] OTHER -> cat
          : rows \in {Target(cat, sql)} })

\* The world a handler runs in.
World(cat, nextUuid, fault) ==
    [cat |-> cat, nextUuid |-> nextUuid, sent |-> <<>>, replies |-> <<>>,
     failAt |-> fault.failAt, vanishAt |-> fault.vanishAt]

\* the catalog a call meets: the addressed table may just have been dropped
Met(w, sql) ==
    IF w.vanishAt = Len(w.sent) + 1 THEN w.cat \ Target(w.cat, sql) ELSE w.cat

\* the call returns an error: the transport failed or the server refused
Failed(w, sql) ==
    w.failAt = Len(w.sent) + 1 \/ ~Applicable(Met(w, sql), sql)

\* clickhouseClient.Exec(ctx, sql)
Exec(w, sql) ==
    The({ [w |-> [w EXCEPT
                    !.cat = IF failed THEN met
                            ELSE Apply(met, w.nextUuid, sql),
                    !.nextUuid = IF ~failed /\ sql.kind = "CREATE TABLE"
                                 THEN @ + 1 ELSE @,
                    !.sent = Append(@, sql),
                    !.replies = Append(@, IF failed THEN "error" ELSE "ok")],
           err |-> failed]
          : met \in {Met(w, sql)}, failed \in {Failed(w, sql)} })

\* clickhouseClient.Select(ctx, sql, callback): the rows the callback is fed
Select(w, sql) ==
    The({ The({ [w |-> [w EXCEPT
                          !.cat = met,
                          !.sent = Append(@, sql),
                          !.replies = Append(@, IF failed THEN "error"
                                                ELSE IF rows = {}
                                                THEN "no rows" ELSE "rows")],
                 err |-> failed,
                 rows |-> IF failed THEN {} ELSE rows]
                : rows \in {Target(met, sql)} })
          : met \in {Met(w, sql)}, failed \in {Failed(w, sql)} })

\* ------------------------------------------------- internal/dbops/table.go
NoErr == ""

\* TableColumn, but an empty default or comment is kept as an empty text
TableColumnEmpty(data) ==
    [name |-> data.name, type |-> data.type,
     default |-> data.default_expression,
     comment |-> data.comment]

\* the querybuilder.TableColumn a row of system.columns is scanned into
TableColumn(data) ==
    [name |-> data.name, type |-> data.type,
     default |-> IF data.default_expression # "" THEN data.default_expression ELSE Nil,
     comment |-> IF data.comment # "" THEN data.comment ELSE Nil]

\* GetTable, but a descriptor query without rows is an error
GetTableNotFound(w, uuid, clusterName) ==
    The({ IF q.err THEN [w |-> q.w, err |-> "error running query", table |-> None]
          ELSE IF q.rows = {} THEN [w |-> q.w, err |-> "table not found", table |-> None]
          ELSE
            The({ The({ LET table ==
                              [UUID |-> uuid,
                               DatabaseName |-> data.database,
                               Name |-> data.name,
                               Engine |-> data.engine,
                               Comment |-> data.comment,
                               OrderBy |-> IF data.sorting_key # ""
                                           THEN parseKeyColumns(data.sorting_key)
                                           ELSE <<>>,
                               PartitionBy |-> IF data.partition_key # ""
                                               THEN data.partition_key ELSE Nil,
                               PrimaryKey |-> IF data.primary_key # ""
                                              THEN parseKeyColumns(data.primary_key)
                                              ELSE <<>>,
                               SampleBy |-> IF data.sampling_key # ""
                                            THEN data.sampling_key ELSE Nil,
                               TTL |-> IF parsed.ttl # "" THEN parsed.ttl ELSE Nil,
                               Settings |-> parsed.settings,
                               Columns |-> <<>>]
                            rows == IF c.rows = {} THEN <<>>
                                    ELSE (CHOOSE r \in c.rows : TRUE).columns
                            columns == [i \in 1..Len(rows) |-> TableColumn(rows[i])]
                        IN IF c.err
                           THEN [w |-> c.w, err |-> "error querying columns",
                                 table |-> None]
                           ELSE [w |-> c.w, err |-> NoErr,
                                 table |-> Some([table EXCEPT !.Columns = columns])]
                        : parsed \in {parseEngineFullForTTLAndSettings(
                                          data.engine_full)},
                          c \in {Select(q.w, SelectColumns(data.database, data.name,
                                                           clusterName))} })
                  : data \in {CHOOSE r \in q.rows : TRUE} })
          : q \in {Select(w, SelectTablesByUuid(uuid, clusterName))} })

\* impl.GetTable -> (*Table, error)
GetTable(w, uuid, clusterName) ==
    The({ IF q.err THEN [w |-> q.w, err |-> "error running query", table |-> None]
          ELSE IF q.rows = {} THEN [w |-> q.w, err |-> NoErr, table |-> None]
          ELSE
            The({ The({ LET table ==
                              [UUID |-> uuid,
                               DatabaseName |-> data.database,
                               Name |-> data.name,
                               Engine |-> data.engine,
                               Comment |-> data.comment,
                               OrderBy |-> IF data.sorting_key # ""
                                           THEN parseKeyColumns(data.sorting_key)
                                           ELSE <<>>,
                               PartitionBy |-> IF data.partition_key # ""
                                               THEN data.partition_key ELSE Nil,
                               PrimaryKey |-> IF data.primary_key # ""
                                              THEN parseKeyColumns(data.primary_key)
                                              ELSE <<>>,
                               SampleBy |-> IF data.sampling_key # ""
                                            THEN data.sampling_key ELSE Nil,
                               TTL |-> IF parsed.ttl # "" THEN parsed.ttl ELSE Nil,
                               Settings |-> parsed.settings,
                               Columns |-> <<>>]
                            rows == IF c.rows = {} THEN <<>>
                                    ELSE (CHOOSE r \in c.rows : TRUE).columns
                            columns == [i \in 1..Len(rows) |-> TableColumn(rows[i])]
                        IN IF c.err
                           THEN [w |-> c.w, err |-> "error querying columns",
                                 table |-> None]
                           ELSE [w |-> c.w, err |-> NoErr,
                                 table |-> Some([table EXCEPT !.Columns = columns])]
                        : parsed \in {parseEngineFullForTTLAndSettings(
                                          data.engine_full)},
                          c \in {Select(q.w, SelectColumns(data.database, data.name,
                                                           clusterName))} })
                  : data \in {CHOOSE r \in q.rows : TRUE} })
          : q \in {Select(w, SelectTablesByUuid(uuid, clusterName))} })

\* FindTableByName, but a name without a row is an absent table, not an error
FindTableByNameAbsent(w, databaseName, tableName, clusterName) ==
    The({ LET uuid == IF q.rows = {} THEN 0 ELSE (CHOOSE r \in q.rows : TRUE).uuid
          IN IF q.err
             THEN [w |-> q.w, err |-> "error running query", table |-> None]
             ELSE IF uuid = 0
             THEN [w |-> q.w, err |-> NoErr,
                   table |-> None]
             ELSE GetTable(q.w, uuid, clusterName)
          : q \in {Select(w, SelectUuidByName(databaseName, tableName,
                                              clusterName))} })

\* impl.FindTableByName -> (*Table, error)
FindTableByName(w, databaseName, tableName, clusterName) ==
    The({ LET uuid == IF q.rows = {} THEN 0 ELSE (CHOOSE r \in q.rows : TRUE).uuid
          IN IF q.err
             THEN [w |-> q.w, err |-> "error running query", table |-> None]
             ELSE IF uuid = 0
             THEN [w |-> q.w, err |-> "table with such name not found",
                   table |-> None]
             ELSE GetTable(q.w, uuid, clusterName)
          : q \in {Select(w, SelectUuidByName(databaseName, tableName,
                                              clusterName))} })

\* impl.CreateTable -> (*Table, error)
CreateTable(w, table, clusterName) ==
    The({ IF b.err THEN [w |-> w, err |-> "error building query", table |-> None]
          ELSE The({ IF e.err
                     THEN [w |-> e.w, err |-> "error running query",
                           table |-> None]
                     ELSE FindTableByName(e.w, table.DatabaseName, table.Name,
                                          clusterName)
                     : e \in {Exec(w, b.sql)} })
          : b \in {BuildCreateTable(table, clusterName)} })

\* DeleteTable, but an absent table is an error
DeleteTableStrict(w, uuid, clusterName) ==
    The({ IF g.err # NoErr THEN [w |-> g.w, err |-> "error getting table"]
          ELSE IF g.table = None THEN [w |-> g.w, err |-> "table not found"]
          ELSE The({ IF b.err THEN [w |-> g.w, err |-> "error building query"]
                     ELSE The({ IF e.err
                                THEN [w |-> e.w, err |-> "error running query"]
                                ELSE [w |-> e.w, err |-> NoErr]
                                : e \in {Exec(g.w, b.sql)} })
                     : b \in {BuildDropTable(g.table[1].DatabaseName,
                                             g.table[1].Name, clusterName)} })
          : g \in {GetTable(w, uuid, clusterName)} })

\* impl.DeleteTable -> error
DeleteTable(w, uuid, clusterName) ==
    The({ IF g.err # NoErr THEN [w |-> g.w, err |-> "error getting table"]
          ELSE IF g.table = None THEN [w |-> g.w, err |-> NoErr]
          ELSE The({ IF b.err THEN [w |-> g.w, err |-> "error building query"]
                     ELSE The({ IF e.err
                                THEN [w |-> e.w, err |-> "error running query"]
                                ELSE [w |-> e.w, err |-> NoErr]
                                : e \in {Exec(g.w, b.sql)} })
                     : b \in {BuildDropTable(g.table[1].DatabaseName,
                                             g.table[1].Name, clusterName)} })
          : g \in {GetTable(w, uuid, clusterName)} })

\* impl.AddTableColumns -> error
AddTableColumns(w, databaseName, tableName, columns, clusterName) ==
    The({ IF b.err
          THEN [w |-> w, err |-> "error building ALTER TABLE ADD COLUMN query"]
          ELSE The({ IF e.err
                     THEN [w |-> e.w, err |-> "error adding columns to table"]
                     ELSE [w |-> e.w, err |-> NoErr]
                     : e \in {Exec(w, b.sql)} })
          : b \in {BuildAlterTableAddColumn(databaseName, tableName, columns,
                                            clusterName)} })

\* DropTableColumns, but a statement that failed is sent a second time
DropTableColumnsRetry(w, databaseName, tableName, columnNames, clusterName) ==
    The({ IF b.err
          THEN [w |-> w, err |-> "error building ALTER TABLE DROP COLUMN query"]
          ELSE The({ IF e.err
                     THEN The({ IF again.err
                                THEN [w |-> again.w,
                                      err |-> "error dropping columns from table"]
                                ELSE [w |-> again.w, err |-> NoErr]
                                : again \in {Exec(e.w, b.sql)} })
                     ELSE [w |-> e.w, err |-> NoErr]
                     : e \in {Exec(w, b.sql)} })
          : b \in {BuildAlterTableDropColumn(databaseName, tableName,
                                             columnNames, clusterName)} })

\* impl.DropTableColumns -> error
DropTableColumns(w, databaseName, tableName, columnNames, clusterName) ==
    The({ IF b.err
          THEN [w |-> w, err |-> "error building ALTER TABLE DROP COLUMN query"]
          ELSE The({ IF e.err
                     THEN [w |-> e.w, err |-> "error dropping columns from table"]
                     ELSE [w |-> e.w, err |-> NoErr]
                     : e \in {Exec(w, b.sql)} })
          : b \in {BuildAlterTableDropColumn(databaseName, tableName,
                                             columnNames, clusterName)} })

\* ------------------------------------------- pkg/resource/table/table.go
\* a diagnostic: severity, summary, and the names its detail text spells out
Diag(severity, summary, names) ==
    [severity |-> severity, summary |-> summary, names |-> names]

HasError(diags) == \E i \in 1..Len(diags) : diags[i].severity = "error"

\* what a handler leaves behind: the world, resp.Diagnostics, resp.State,
\* whether it ended in a nil-pointer panic instead of returning, and the
\* column diff it computed (Update only)
NoDiff == [columnsToAdd |-> <<>>, columnsToRemove |-> <<>>]

Response(w, diags, state, panic) ==
    [w |-> w, diags |-> diags, state |-> state, panic |-> panic, diff |-> NoDiff]

\* normalizeEngineName
normalizeEngineName(engine) ==
    The({ IF idx # 0 THEN TrimSpace(SubSeq(engine, 1, idx - 1))
          ELSE TrimSpace(engine)
          : idx \in {Index(engine, "(")} })

cloudTransformations ==
    [planned \in {"MergeTree", "ReplacingMergeTree", "SummingMergeTree",
                  "AggregatingMergeTree", "CollapsingMergeTree",
                  "VersionedCollapsingMergeTree"} |-> "Shared" \o planned]

\* isCloudEngineTransformation, but only from the plain family to the shared one
isCloudEngineTransformationForward(planned, actual) ==
    planned \in DOMAIN cloudTransformations /\ actual = cloudTransformations[planned]

\* isCloudEngineTransformation
isCloudEngineTransformation(planned, actual) ==
    IF planned \in DOMAIN cloudTransformations
    THEN actual = cloudTransformations[planned]
    ELSE \E original \in DOMAIN cloudTransformations :
            planned = cloudTransformations[original] /\ actual = original

\* syncPrimaryKey, but the catalog's primary key always
syncPrimaryKeyObserved(plan, table) == table.PrimaryKey

\* Resource.syncTableState: primaryKeyList
syncPrimaryKey(plan, table) ==
    IF plan # None
    THEN IF Len(plan[1].primary_key) = 0 /\ Len(table.PrimaryKey) > 0
         THEN plan[1].primary_key
         ELSE table.PrimaryKey
    ELSE table.PrimaryKey

\* syncSettings, but every setting the catalog reports
syncSettingsObserved(plan, table) == table.Settings

\* Resource.syncTableState: settings
syncSettings(plan, table) ==
    IF plan # None
    THEN [k \in {x \in DOMAIN plan[1].settings : x \in DOMAIN table.Settings}
            |-> table.Settings[k]]
    ELSE EmptyMap

\* Resource.syncTableState: engine
syncEngine(plan, table) ==
    IF plan # None /\ plan[1].engine # Nil
    THEN The({ IF isCloudEngineTransformation(normalizedPlanned, normalizedActual)
               THEN plan[1].engine
               ELSE IF normalizedPlanned = normalizedActual
               THEN plan[1].engine
               ELSE table.Engine
               : normalizedPlanned \in {normalizeEngineName(plan[1].engine)},
                 normalizedActual \in {normalizeEngineName(table.Engine)} })
    ELSE table.Engine

\* syncTTL, but the catalog's TTL always
syncTTLObserved(plan, table) == table.TTL

\* Resource.syncTableState: ttl
syncTTL(plan, table) ==
    IF plan # None /\ plan[1].ttl # Nil /\ table.TTL # Nil
    THEN plan[1].ttl
    ELSE table.TTL

\* Resource.syncTableState -> (*Table, error); plan is a pointer (None = nil)
syncTableState(w, uuid, clusterName, plan) ==
    The({ IF g.err # NoErr
          THEN [w |-> g.w, err |-> "cannot get table", state |-> None]
          ELSE IF g.table = None THEN [w |-> g.w, err |-> NoErr, state |-> None]
          ELSE
            The({ [w |-> g.w, err |-> NoErr,
                   state |-> Some(
                       [cluster_name |-> clusterName,
                        uuid |-> table.UUID,
                        database_name |-> table.DatabaseName,
                        name |-> table.Name,
                        columns |-> [i \in 1..Len(table.Columns) |->
                                        [name |-> table.Columns[i].name,
                                         type |-> table.Columns[i].type,
                                         default |-> table.Columns[i].default,
                                         comment |-> table.Columns[i].comment]],
                        engine |-> syncEngine(plan, table),
                        order_by |-> table.OrderBy,
                        partition_by |-> table.PartitionBy,
                        primary_key |-> syncPrimaryKey(plan, table),
                        sample_by |-> table.SampleBy,
                        ttl |-> syncTTL(plan, table),
                        settings |-> syncSettings(plan, table),
                        comment |-> table.Comment,
                        allow_drops |-> IF plan # None THEN plan[1].allow_drops
                                        ELSE "false"])]
                  : table \in {g.table[1]} })
          : g \in {GetTable(w, uuid, clusterName)} })

\* Resource.Create
ResourceCreate(w, plan) ==
    LET dbopsTable ==
            [UUID |-> 0,
             DatabaseName |-> ValueString(plan.database_name),
             Name |-> ValueString(plan.name),
             Engine |-> ValueString(plan.engine),
             Columns |-> plan.columns,
             OrderBy |-> plan.order_by,
             PartitionBy |-> plan.partition_by,
             PrimaryKey |-> plan.primary_key,
             SampleBy |-> plan.sample_by,
             TTL |-> plan.ttl,
             Settings |-> plan.settings,
             Comment |-> ValueString(plan.comment)]
    IN The({ IF c.err # NoErr
             THEN Response(c.w, <<Diag("error", "Error creating table", {})>>,
                           None, FALSE)
             ELSE IF c.table = None
             THEN Response(c.w, <<>>, None, TRUE)   \* table.UUID on a nil table
             ELSE The({ IF s.err # NoErr
                        THEN Response(s.w, <<Diag("error", "Error syncing table",
                                                  {})>>, None, FALSE)
                        ELSE IF s.state = None
                        THEN Response(s.w, <<Diag("error", "Error syncing table",
                                                  {})>>, None, FALSE)
                        ELSE Response(s.w, <<>>, s.state, FALSE)
                        : s \in {syncTableState(c.w, c.table[1].UUID,
                                                plan.cluster_name, Some(plan))} })
             : c \in {CreateTable(w, dbopsTable, plan.cluster_name)} })

\* Read, but a table that is gone is an error and stays in the state
ResourceReadStrict(w, state) ==
    The({ IF s.err # NoErr
          THEN Response(s.w, <<Diag("error", "Error syncing table", {})>>,
                        Some(state), FALSE)
          ELSE IF s.state = None
          THEN Response(s.w, <<Diag("error", "Error syncing table", {})>>,
                        Some(state), FALSE)
          ELSE Response(s.w, <<>>, s.state, FALSE)
          : s \in {syncTableState(w, state.uuid, state.cluster_name,
                                  Some(state))} })

\* Read, but the table is located by the stored database and name
ResourceReadByName(w, state) ==
    The({ IF f.err # NoErr
          THEN Response(f.w, <<Diag("error", "Error syncing table", {})>>,
                        Some(state), FALSE)
          ELSE IF f.table = None
          THEN Response(f.w, <<>>, None, FALSE)
          ELSE The({ IF s.err # NoErr
                     THEN Response(s.w, <<Diag("error", "Error syncing table",
                                               {})>>, Some(state), FALSE)
                     ELSE Response(s.w, <<>>, s.state, FALSE)
                     : s \in {syncTableState(f.w, f.table[1].UUID,
                                             state.cluster_name, Some(state))} })
          : f \in {FindTableByName(w, ValueString(state.database_name),
                                   ValueString(state.name),
                                   state.cluster_name)} })

\* Resource.Read; state is req.State, which resp.State starts as
ResourceRead(w, state) ==
    The({ IF s.err # NoErr
          THEN Response(s.w, <<Diag("error", "Error syncing table", {})>>,
                        Some(state), FALSE)
          ELSE IF s.state = None
          THEN Response(s.w, <<>>, None, FALSE)      \* resp.State.RemoveResource
          ELSE Response(s.w, <<>>, s.state, FALSE)
          : s \in {syncTableState(w, state.uuid, state.cluster_name,
                                  Some(state))} })

\* the map from column name to column that Update and ModifyPlan build
ColumnMap(columns) ==
    [n \in NamesOf(columns) |->
        columns[CHOOSE i \in 1..Len(columns) :
                   /\ columns[i].name = n
                   /\ \A j \in (i + 1)..Len(columns) : columns[j].name # n]]

\* columnsToAdd, but looking the name up in the plan's own map
RECURSIVE columnsToAddOwnMap(_, _)
columnsToAddOwnMap(planColumnList, stateColumns) ==
    IF Len(planColumnList) = 0 THEN <<>>
    ELSE (IF Head(planColumnList).name \notin NamesOf(planColumnList)
          THEN <<Head(planColumnList)>> ELSE <<>>)
         \o columnsToAddOwnMap(Tail(planColumnList), stateColumns)

\* Resource.Update: the loop that finds the new columns to add
RECURSIVE columnsToAdd(_, _)
columnsToAdd(planColumnList, stateColumns) ==
    IF Len(planColumnList) = 0 THEN <<>>
    ELSE (IF Head(planColumnList).name \notin DOMAIN stateColumns
          THEN <<Head(planColumnList)>> ELSE <<>>)
         \o columnsToAdd(Tail(planColumnList), stateColumns)

\* Resource.Update: the loop that finds the columns to remove
RECURSIVE columnsToRemove(_, _)
columnsToRemove(stateColumnList, planColumns) ==
    IF Len(stateColumnList) = 0 THEN <<>>
    ELSE (IF Head(stateColumnList).name \notin DOMAIN planColumns
          THEN <<Head(stateColumnList).name>> ELSE <<>>)
         \o columnsToRemove(Tail(stateColumnList), planColumns)

\* Resource.Update: the DropTableColumns step, skipped for an empty list
UpdateDrop(w, state, toRemove) ==
    IF Len(toRemove) > 0
    THEN DropTableColumns(w, ValueString(state.database_name),
                          ValueString(state.name), toRemove, state.cluster_name)
    ELSE [w |-> w, err |-> NoErr]

\* Resource.Update: the AddTableColumns step, skipped for an empty list
UpdateAdd(w, state, toAdd) ==
    IF Len(toAdd) > 0
    THEN AddTableColumns(w, ValueString(state.database_name),
                         ValueString(state.name), toAdd, state.cluster_name)
    ELSE [w |-> w, err |-> NoErr]

\* Resource.Update: the re-read after the ALTER statements
UpdateSync(w, plan, state) ==
    The({ IF s.err # NoErr
          THEN Response(s.w, <<Diag("error", "Error syncing table state", {})>>,
                        Some(state), FALSE)
          ELSE Response(s.w, <<>>, s.state, FALSE)  \* resp.State.Set(updatedState)
          : s \in {syncTableState(w, state.uuid, state.cluster_name,
                                  Some(plan))} })

\* Update, but the columns are added before the allow_drops gate is checked
ResourceUpdateLateGate(w, plan, state) ==
    The({ [The({ IF a.err # NoErr
                 THEN Response(a.w, <<Diag("error", "Error adding columns to table",
                                           {})>>, Some(state), FALSE)
                 ELSE IF Len(toRemove) > 0 /\ ~ValueBool(plan.allow_drops)
                 THEN Response(a.w, <<Diag("error", "Column removal not allowed",
                                           Range(toRemove))>>, Some(state), FALSE)
                 ELSE The({ IF d.err # NoErr
                            THEN Response(d.w,
                                     <<Diag("error",
                                            "Error removing columns from table",
                                            {})>>, Some(state), FALSE)
                            ELSE UpdateSync(d.w, plan, state)
                            : d \in {UpdateDrop(a.w, state, toRemove)} })
                 : a \in {UpdateAdd(w, state, toAdd)} })
           EXCEPT !.diff = [columnsToAdd |-> toAdd, columnsToRemove |-> toRemove]]
          : toAdd \in {columnsToAdd(plan.columns, ColumnMap(state.columns))},
            toRemove \in {columnsToRemove(state.columns,
                                          ColumnMap(plan.columns))} })

\* Update, but ADD COLUMN is sent before DROP COLUMN
ResourceUpdateAddFirst(w, plan, state) ==
    The({ [IF Len(toRemove) > 0 /\ ~ValueBool(plan.allow_drops)
           THEN Response(w, <<Diag("error", "Column removal not allowed",
                                   Range(toRemove))>>, Some(state), FALSE)
           ELSE The({ IF a.err # NoErr
                      THEN Response(a.w,
                               <<Diag("error", "Error adding columns to table",
                                      {})>>, Some(state), FALSE)
                      ELSE The({ IF d.err # NoErr
                                 THEN Response(d.w,
                                          <<Diag("error",
                                                 "Error removing columns from table",
                                                 {})>>, Some(state), FALSE)
                                 ELSE UpdateSync(d.w, plan, state)
                                 : d \in {UpdateDrop(a.w, state, toRemove)} })
                      : a \in {UpdateAdd(w, state, toAdd)} })
           EXCEPT !.diff = [columnsToAdd |-> toAdd, columnsToRemove |-> toRemove]]
          : toAdd \in {columnsToAdd(plan.columns, ColumnMap(state.columns))},
            toRemove \in {columnsToRemove(state.columns,
                                          ColumnMap(plan.columns))} })

\* Resource.Update; state is req.State, which resp.State starts as
ResourceUpdate(w, plan, state) ==
    The({ [IF Len(toRemove) > 0 /\ ~ValueBool(plan.allow_drops)
           THEN Response(w, <<Diag("error", "Column removal not allowed",
                                   Range(toRemove))>>, Some(state), FALSE)
           ELSE The({ IF d.err # NoErr
                      THEN Response(d.w,
                               <<Diag("error", "Error removing columns from table",
                                      {})>>, Some(state), FALSE)
                      ELSE The({ IF a.err # NoErr
                                 THEN Response(a.w,
                                          <<Diag("error",
                                                 "Error adding columns to table",
                                                 {})>>, Some(state), FALSE)
                                 ELSE UpdateSync(a.w, plan, state)
                                 : a \in {UpdateAdd(d.w, state, toAdd)} })
                      : d \in {UpdateDrop(w, state, toRemove)} })
           EXCEPT !.diff = [columnsToAdd |-> toAdd, columnsToRemove |-> toRemove]]
          : toAdd \in {columnsToAdd(plan.columns, ColumnMap(state.columns))},
            toRemove \in {columnsToRemove(state.columns,
                                          ColumnMap(plan.columns))} })

\* Delete, but without the allow_drops gate
ResourceDeleteUngated(w, state) ==
    The({ IF d.err # NoErr
          THEN Response(d.w, <<Diag("error", "Error deleting table", {})>>,
                        Some(state), FALSE)
          ELSE Response(d.w, <<>>, Some(state), FALSE)
          : d \in {DeleteTable(w, state.uuid, state.cluster_name)} })

\* Delete, but the gate is checked after the table was looked up
ResourceDeleteLateGate(w, state) ==
    IF ~ValueBool(state.allow_drops)
    THEN Response(GetTable(w, state.uuid, state.cluster_name).w,
                  <<Diag("error", "Table deletion not allowed",
                         {ValueString(state.name)})>>, Some(state), FALSE)
    ELSE The({ IF d.err # NoErr
               THEN Response(d.w, <<Diag("error", "Error deleting table", {})>>,
                             Some(state), FALSE)
               ELSE Response(d.w, <<>>, Some(state), FALSE)
               : d \in {DeleteTable(w, state.uuid, state.cluster_name)} })

\* Resource.Delete; state is req.State, which resp.State starts as
ResourceDelete(w, state) ==
    IF ~ValueBool(state.allow_drops)
    THEN Response(w, <<Diag("error", "Table deletion not allowed",
                            {ValueString(state.name)})>>, Some(state), FALSE)
    ELSE The({ IF d.err # NoErr
               THEN Response(d.w, <<Diag("error", "Error deleting table", {})>>,
                             Some(state), FALSE)
               ELSE Response(d.w, <<>>, Some(state), FALSE)
               : d \in {DeleteTable(w, state.uuid, state.cluster_name)} })

\* ModifyPlanLoop, but a removed ORDER BY column does not force replacement
RECURSIVE ModifyPlanLoopNoOrderBy(_, _, _, _, _)
ModifyPlanLoopNoOrderBy(i, plan, state, diags, requiresReplace) ==
    IF i > Len(state.columns)
    THEN [diags |-> diags,
          RequiresReplace |-> IF requiresReplace THEN <<"columns">> ELSE <<>>]
    ELSE
      LET stateCol == state.columns[i]
          colName == ValueString(stateCol.name)
          planColumns == ColumnMap(plan.columns)
      IN IF colName \notin DOMAIN planColumns
         THEN IF ~ValueBool(plan.allow_drops)
              THEN [diags |-> Append(diags, Diag("error",
                                 "Column removal not allowed", {colName})),
                    RequiresReplace |-> <<>>]
              ELSE ModifyPlanLoopNoOrderBy(i + 1, plan, state, diags, requiresReplace)
         ELSE IF stateCol.type # planColumns[colName].type
         THEN ModifyPlanLoopNoOrderBy(i + 1, plan, state,
                  Append(diags, Diag("warning",
                      "Column type change requires table recreation", {colName})),
                  TRUE)
         ELSE ModifyPlanLoopNoOrderBy(i + 1, plan, state, diags, requiresReplace)

\* ModifyPlanLoop, but a changed default forces replacement like a changed type
RECURSIVE ModifyPlanLoopDefault(_, _, _, _, _)
ModifyPlanLoopDefault(i, plan, state, diags, requiresReplace) ==
    IF i > Len(state.columns)
    THEN [diags |-> diags,
          RequiresReplace |-> IF requiresReplace THEN <<"columns">> ELSE <<>>]
    ELSE
      LET stateCol == state.columns[i]
          colName == ValueString(stateCol.name)
          planColumns == ColumnMap(plan.columns)
          orderBySet == Range(state.order_by)
      IN IF colName \notin DOMAIN planColumns
         THEN IF ~ValueBool(plan.allow_drops)
              THEN [diags |-> Append(diags, Diag("error",
                                 "Column removal not allowed", {colName})),
                    RequiresReplace |-> <<>>]
              ELSE IF colName \in orderBySet
              THEN ModifyPlanLoopDefault(i + 1, plan, state,
                       Append(diags, Diag("warning",
                           "Cannot remove column in ORDER BY", {colName})),
                       TRUE)
              ELSE ModifyPlanLoopDefault(i + 1, plan, state, diags, requiresReplace)
         ELSE IF stateCol.type # planColumns[colName].type
                 \/ stateCol.default # planColumns[colName].default
         THEN ModifyPlanLoopDefault(i + 1, plan, state,
                  Append(diags, Diag("warning",
                      "Column type change requires table recreation", {colName})),
                  TRUE)
         ELSE ModifyPlanLoopDefault(i + 1, plan, state, diags, requiresReplace)

\* Resource.ModifyPlan: the loop over state.Columns from index i on
RECURSIVE ModifyPlanLoop(_, _, _, _, _)
ModifyPlanLoop(i, plan, state, diags, requiresReplace) ==
    IF i > Len(state.columns)
    THEN [diags |-> diags,
          RequiresReplace |-> IF requiresReplace THEN <<"columns">> ELSE <<>>]
    ELSE
      LET stateCol == state.columns[i]
          colName == ValueString(stateCol.name)
          planColumns == ColumnMap(plan.columns)
          orderBySet == Range(state.order_by)
      IN IF colName \notin DOMAIN planColumns
         THEN IF ~ValueBool(plan.allow_drops)
              THEN [diags |-> Append(diags, Diag("error",
                                 "Column removal not allowed", {colName})),
                    RequiresReplace |-> <<>>]
              ELSE IF colName \in orderBySet
              THEN ModifyPlanLoop(i + 1, plan, state,
                       Append(diags, Diag("warning",
                           "Cannot remove column in ORDER BY", {colName})),
                       TRUE)
              ELSE ModifyPlanLoop(i + 1, plan, state, diags, requiresReplace)
         ELSE IF stateCol.type # planColumns[colName].type
         THEN ModifyPlanLoop(i + 1, plan, state,
                  Append(diags, Diag("warning",
                      "Column type change requires table recreation", {colName})),
                  TRUE)
         ELSE ModifyPlanLoop(i + 1, plan, state, diags, requiresReplace)

\* Resource.ModifyPlan; plan and state are None when null (destroy, create)
ModifyPlan(plan, state) ==
    IF plan = None THEN [diags |-> <<>>, RequiresReplace |-> <<>>]
    ELSE IF state = None THEN [diags |-> <<>>, RequiresReplace |-> <<>>]
    ELSE ModifyPlanLoop(1, plan[1], state[1], <<>>, FALSE)

\* ------------------------------------------------------------ the inputs
\* column lists of at most maxLen columns with pairwise different names
ColumnLists(columns, maxLen) ==
    {s \in UNION {[1..n -> columns] : n \in 1..maxLen} :
        \A i, j \in 1..Len(s) : i # j => s[i].name # s[j].name}

\* columns as a configuration declares them in the lifecycle model
PlainColumns ==
    {[name |-> n, type |-> "UInt64", default |-> Nil, comment |-> Nil] : n \in ColNames}

\* the column lists a configuration of the lifecycle model declares: the
\* sorting key column "a" first, then further columns
PlanColumnLists ==
    {s \in ColumnLists(PlainColumns, MaxCols) : s[1].name = "a"}

\* a configuration of the resource; the first column is the sorting key
Config(columns, allowDrops) ==
    [cluster_name |-> Nil,
     uuid |-> 0,
     database_name |-> DbName,
     name |-> "t",
     columns |-> columns,
     engine |-> "MergeTree()",
     order_by |-> <<columns[1].name>>,
     partition_by |-> Nil,
     primary_key |-> <<>>,
     sample_by |-> Nil,
     ttl |-> Nil,
     settings |-> EmptyMap,
     comment |-> "",
     allow_drops |-> allowDrops]

Plans ==
    {Config(columns, allowDrops) :
        columns \in PlanColumnLists,
        allowDrops \in {"true", "false"}}

\* the plan of an in-place update: the attributes that force replacement are
\* those of the prior state, columns and allow_drops are the configuration's
UpdatePlans(state) ==
    {[state EXCEPT !.columns = columns, !.allow_drops = allowDrops] :
        columns \in PlanColumnLists,
        allowDrops \in {"true", "false"}}

\* ------------------------------------------------------------- the state
VARIABLES
    catalog,    \* the rows of system.tables (with their system.columns rows)
    nextUuid,   \* the uuid the server gives the next table
    state,      \* the persisted Terraform state of the resource, None if null
    op,         \* the last operation
    plan,       \* its req.Plan, None if it has none
    prior,      \* its req.State, None if null
    sent,       \* the statements it handed to the executor, in order
    replies,    \* the executor's reply to each
    diags,      \* its resp.Diagnostics
    panicked,   \* it ended in a panic
    diff,       \* columnsToAdd and columnsToRemove as Update computed them
    replace,    \* resp.RequiresReplace of ModifyPlan
    call,       \* the last call of a dbops.Client method: its world and arguments
    ret,        \* what that call returned
    q,          \* a statement builder of internal/querybuilder, None if none
    built       \* what its Build calls returned, in order

vars == <<catalog, nextUuid, state, op, plan, prior, sent, replies, diags,
          panicked, diff, replace, call, ret, q, built>>

\* The faults of one invocation that makes at most n executor calls: none,
\* or call k returns an error, or the table call k addresses was dropped out
\* of band just before it.
Faults(n) ==
    {[failAt |-> 0, vanishAt |-> 0]}
    \cup {[failAt |-> k, vanishAt |-> 0] : k \in 1..n}
    \cup {[failAt |-> 0, vanishAt |-> k] : k \in 1..n}

\* the executor calls of the longest run of each handler, in order
CreateCalls ==
    <<"CREATE TABLE", "SELECT uuid BY name", "SELECT tables BY uuid",
      "SELECT columns", "SELECT tables BY uuid", "SELECT columns">>
ReadCalls == <<"SELECT tables BY uuid", "SELECT columns">>
UpdateCalls ==
    <<"DROP COLUMN", "ADD COLUMN", "SELECT tables BY uuid", "SELECT columns">>
DeleteCalls == <<"SELECT tables BY uuid", "SELECT columns", "DROP TABLE">>

Init ==
    /\ catalog = {}
    /\ nextUuid = 1
    /\ state = None
    /\ op = "init"
    /\ plan = None
    /\ prior = None
    /\ sent = <<>>
    /\ replies = <<>>
    /\ diags = <<>>
    /\ panicked = FALSE
    /\ diff = NoDiff
    /\ replace = <<>>
    /\ call = None
    /\ ret = None
    /\ q = None
    /\ built = <<>>

\* the handler's response r becomes the record of the last operation
Record(name, p, r) ==
    /\ op' = name
    /\ plan' = p
    /\ prior' = state
    /\ catalog' = r.w.cat
    /\ nextUuid' = r.w.nextUuid
    /\ sent' = r.w.sent
    /\ replies' = r.w.replies
    /\ diags' = r.diags
    /\ panicked' = r.panic
    /\ diff' = r.diff
    /\ replace' = <<>>
    /\ UNCHANGED <<call, ret, q, built>>

\* terraform apply of a new resource: Resource.Create, then the framework
\* saves resp.State (null unless Create set it)
Create ==
    /\ state = None
    /\ nextUuid <= MaxUuid
    /\ \E p \in Plans, fault \in Faults(Len(CreateCalls)) :
          \E r \in {ResourceCreate(World(catalog, nextUuid, fault), p)} :
             /\ Record("Create", Some(p), r)
             /\ state' = r.state

\* terraform refresh: Resource.Read, then the framework saves resp.State
Read ==
    /\ state # None
    /\ \E fault \in Faults(Len(ReadCalls)) :
          \E r \in {ResourceRead(World(catalog, nextUuid, fault), state[1])} :
             /\ Record("Read", None, r)
             /\ state' = r.state

\* terraform apply of an in-place change: Resource.Update, then the framework
\* saves resp.State
Update ==
    /\ state # None
    /\ \E p \in UpdatePlans(state[1]), fault \in Faults(Len(UpdateCalls)) :
          \E r \in {ResourceUpdate(World(catalog, nextUuid, fault), p, state[1])} :
             /\ Record("Update", Some(p), r)
             /\ state' = r.state

\* terraform destroy: Resource.Delete, then the framework removes the state
\* unless Delete reported an error
Delete ==
    /\ state # None
    /\ \E fault \in Faults(Len(DeleteCalls)) :
          \E r \in {ResourceDelete(World(catalog, nextUuid, fault), state[1])} :
             /\ Record("Delete", None, r)
             /\ state' = IF HasError(r.diags) THEN r.state ELSE None

\* another operator drops a table
OutOfBandDrop ==
    /\ \E r \in catalog : catalog' = catalog \ {r}
    /\ op' = "OutOfBandDrop"
    /\ plan' = None /\ prior' = state /\ sent' = <<>> /\ replies' = <<>>
    /\ diags' = <<>> /\ panicked' = FALSE /\ diff' = NoDiff /\ replace' = <<>>
    /\ UNCHANGED <<nextUuid, state, call, ret, q, built>>

\* another operator renames a table
OutOfBandRename ==
    /\ \E r \in catalog, n \in TableNames :
          /\ \A o \in catalog : ~(o.database = r.database /\ o.name = n)
          /\ catalog' = (catalog \ {r}) \cup {[r EXCEPT !.name = n]}
    /\ op' = "OutOfBandRename"
    /\ plan' = None /\ prior' = state /\ sent' = <<>> /\ replies' = <<>>
    /\ diags' = <<>> /\ panicked' = FALSE /\ diff' = NoDiff /\ replace' = <<>>
    /\ UNCHANGED <<nextUuid, state, call, ret, q, built>>

Next ==
    \/ Create
    \/ Read
    \/ Update
    \/ Delete
    \/ OutOfBandDrop
    \/ OutOfBandRename

Spec == Init /\ [][Next]_vars

\* ------------------------------------------------ the schema diff alone
\* ModifyPlan and the diff of Update are functions of the plan and the prior
\* state.  SpecDiff applies them to every pair of a declared and an observed
\* column list: types, defaults and comments vary, names are unique.
NoFault == [failAt |-> 0, vanishAt |-> 0]

ObservedColumns ==
    {[name |-> n, type |-> t, default |-> Nil, comment |-> Nil] :
        n \in ColNames, t \in ColTypes}

DeclaredColumns ==
    {[name |-> n, type |-> t, default |-> m[1], comment |-> m[2]] :
        n \in ColNames, t \in ColTypes, m \in {<<Nil, Nil>>, <<"0", "note">>}}

\* the world and the persisted state after a faultless Create of the columns
Created(columns) ==
    ResourceCreate(World({}, 1, NoFault), Config(columns, "false"))

DiffInit ==
    \E observed \in ColumnLists(ObservedColumns, MaxCols),
       declared \in ColumnLists(DeclaredColumns, MaxCols),
       allowDrops \in {"true", "false"} :
        \E c \in {Created(observed)} :
            /\ catalog = c.w.cat
            /\ nextUuid = c.w.nextUuid
            /\ state = c.state
            /\ plan = Some([c.state[1] EXCEPT !.columns = declared,
                                              !.allow_drops = allowDrops])
            /\ op = "input"
            /\ prior = None
            /\ sent = <<>>
            /\ replies = <<>>
            /\ diags = <<>>
            /\ panicked = FALSE
            /\ diff = NoDiff
            /\ replace = <<>>
            /\ call = None
            /\ ret = None
            /\ q = None
            /\ built = <<>>

\* terraform plan of a change: Resource.ModifyPlan
Plan ==
    /\ op = "input"
    /\ \E r \in {ModifyPlan(plan, state)} :
          /\ op' = "ModifyPlan"
          /\ prior' = state
          /\ diags' = r.diags
          /\ replace' = r.RequiresReplace
    /\ UNCHANGED <<catalog, nextUuid, state, plan, sent, replies, panicked, diff,
                   call, ret, q, built>>

\* Resource.Update called with the plan
DiffUpdate ==
    /\ op = "ModifyPlan"
    /\ \E r \in {ResourceUpdate(World(catalog, nextUuid, NoFault), plan[1], state[1])} :
          /\ Record("Update", plan, r)
          /\ state' = r.state

DiffNext ==
    \/ Plan
    \/ DiffUpdate

SpecDiff == DiffInit /\ [][DiffNext]_vars

\* ------------------------------------------- the catalog client alone
\* The methods of dbops.Client called one at a time on a catalog that other
\* operators change between the calls.
ClientTables ==
    {[UUID |-> 0, DatabaseName |-> DbName, Name |-> n, Engine |-> "MergeTree()",
      Columns |-> columns, OrderBy |-> <<columns[1].name>>, PartitionBy |-> Nil,
      PrimaryKey |-> <<>>, SampleBy |-> Nil, TTL |-> Nil, Settings |-> EmptyMap,
      Comment |-> ""] :
        n \in TableNames,
        columns \in {s \in PlanColumnLists : NamesOf(s) \subseteq {"a", "b"}}}

\* the executor calls of the longest run of each method, in order
CreateTableCalls ==
    <<"CREATE TABLE", "SELECT uuid BY name", "SELECT tables BY uuid",
      "SELECT columns">>
GetTableCalls == <<"SELECT tables BY uuid", "SELECT columns">>
FindTableByNameCalls ==
    <<"SELECT uuid BY name", "SELECT tables BY uuid", "SELECT columns">>

\* the method returned r from the world w: the record of the last call
Returned(method, w, uuid, tableName, r) ==
    /\ op' = method
    /\ call' = [w |-> w, uuid |-> uuid, databaseName |-> DbName,
                tableName |-> tableName]
    /\ ret' = [err |-> r.err, table |-> r.table]
    /\ catalog' = r.w.cat
    /\ nextUuid' = r.w.nextUuid
    /\ sent' = r.w.sent
    /\ replies' = r.w.replies
    /\ plan' = None /\ prior' = state /\ diags' = <<>> /\ panicked' = FALSE
    /\ diff' = NoDiff /\ replace' = <<>>
    /\ UNCHANGED <<state, q, built>>

CallCreateTable ==
    /\ nextUuid <= MaxUuid
    /\ \E table \in ClientTables, fault \in Faults(Len(CreateTableCalls)) :
          \E w \in {World(catalog, nextUuid, fault)} :
             \E r \in {CreateTable(w, table, Nil)} :
                Returned("CreateTable", w, 0, table.Name, r)

CallGetTable ==
    \E uuid \in 1..MaxUuid, fault \in Faults(Len(GetTableCalls)) :
       \E w \in {World(catalog, nextUuid, fault)} :
          \E r \in {GetTable(w, uuid, Nil)} :
             Returned("GetTable", w, uuid, "", r)

CallFindTableByName ==
    \E tableName \in TableNames, fault \in Faults(Len(FindTableByNameCalls)) :
       \E w \in {World(catalog, nextUuid, fault)} :
          \E r \in {FindTableByName(w, DbName, tableName, Nil)} :
             Returned("FindTableByName", w, 0, tableName, r)

ClientNext ==
    \/ CallCreateTable
    \/ CallGetTable
    \/ CallFindTableByName
    \/ OutOfBandDrop
    \/ OutOfBandRename

SpecClient == Init /\ [][ClientNext]_vars

\* --------------------------------------- the state reconciliation alone
\* What Create, Read and Update write to the state is a function of the
\* declared table (the plan, or the prior state for Read) and of the row the
\* catalog holds.  SpecSync applies the handlers to every pair of a declared
\* table and a catalog row: the server may have moved the table to a shared
\* engine, reformatted its TTL, added settings of its own and inferred a
\* primary key.
SyncEngines == {"MergeTree()", "SharedMergeTree", "ReplacingMergeTree(ver)", "Log"}
SyncPrimaryKeys == {<<>>, <<"a">>}
SyncTTLs == {Nil, "d + INTERVAL 1 DAY"}
SyncSettings ==
    {EmptyMap,
     MapPut(MapPut(EmptyMap, "index_granularity", "8192"), "min_rows", "1")}

SyncConfigs ==
    {[Config(<<[name |-> "a", type |-> "UInt64", default |-> Nil, comment |-> Nil]>>,
             "false")
        EXCEPT !.engine = engine, !.primary_key = primaryKey, !.ttl = ttl,
               !.settings = settings] :
        engine \in SyncEngines, primaryKey \in SyncPrimaryKeys,
        ttl \in SyncTTLs, settings \in SyncSettings}

\* what the catalog may hold for such a table
ObservedEngines == {"MergeTree", "SharedMergeTree", "SharedReplacingMergeTree", "Log"}
ObservedPrimaryKeys == {"", "a"}
ObservedClauses ==
    {"",
     " TTL d + toIntervalDay(1)",
     " SETTINGS index_granularity = 4096, storage_policy = default",
     " TTL d + toIntervalDay(1) SETTINGS index_granularity = 4096"}

SyncRows ==
    {[uuid |-> 1, database |-> DbName, name |-> "t", engine |-> engine,
      partition_key |-> "", sorting_key |-> "a", primary_key |-> primaryKey,
      sampling_key |-> "", engine_full |-> engine \o " ORDER BY a" \o clauses,
      comment |-> "",
      columns |-> <<CatalogColumn([name |-> "a", type |-> "UInt64",
                                   default |-> Nil, comment |-> Nil])>>] :
        engine \in ObservedEngines, primaryKey \in ObservedPrimaryKeys,
        clauses \in ObservedClauses}

SyncInit ==
    /\ \/ /\ catalog = {} /\ nextUuid = 1 /\ state = None
       \/ /\ \E row \in SyncRows : catalog = {row}
          /\ nextUuid = 2
          /\ \E declared \in SyncConfigs : state = Some([declared EXCEPT !.uuid = 1])
    /\ op = "init"
    /\ plan = None
    /\ prior = None
    /\ sent = <<>>
    /\ replies = <<>>
    /\ diags = <<>>
    /\ panicked = FALSE
    /\ diff = NoDiff
    /\ replace = <<>>
    /\ call = None
    /\ ret = None
    /\ q = None
    /\ built = <<>>

SyncCreate ==
    /\ state = None
    /\ op = "init"
    /\ \E p \in SyncConfigs :
          \E r \in {ResourceCreate(World(catalog, nextUuid, NoFault), p)} :
             /\ Record("Create", Some(p), r)
             /\ state' = r.state

SyncRead ==
    /\ state # None
    /\ op = "init"
    /\ \E r \in {ResourceRead(World(catalog, nextUuid, NoFault), state[1])} :
          /\ Record("Read", None, r)
          /\ state' = r.state

SyncUpdate ==
    /\ state # None
    /\ op = "init"
    /\ \E declared \in SyncConfigs :
          \E p \in {[declared EXCEPT !.uuid = state[1].uuid]} :
             \E r \in {ResourceUpdate(World(catalog, nextUuid, NoFault), p,
                                      state[1])} :
                /\ Record("Update", Some(p), r)
                /\ state' = r.state

SyncNext ==
    \/ SyncCreate
    \/ SyncRead
    \/ SyncUpdate

SpecSync == SyncInit /\ [][SyncNext]_vars

\* ------------------------------------ internal/querybuilder: the texts
\* The builders of CREATE TABLE and ALTER TABLE as the strings they return.
\* A builder is a record of its fields; Build returns (sql, err).
MaxBuilds == 2

\* the backquote character, cut from a string that also holds its closing quote
Backquote == SubSeq("`'", 1, 1)

backtick(s) == Backquote \o s \o Backquote

quote(s) == "'" \o s \o "'"

NewCreateTable(databaseName, tableName, columns) ==
    [builder |-> "createTableQueryBuilder",
     databaseName |-> databaseName, tableName |-> tableName, columns |-> columns,
     clusterName |-> Nil, engine |-> "", orderBy |-> <<>>, partitionBy |-> Nil,
     primaryKey |-> <<>>, sampleBy |-> Nil, ttl |-> Nil, settings |-> EmptyMap,
     comment |-> Nil]

NewAlterTableAddColumn(databaseName, tableName, columns) ==
    [builder |-> "AlterTableAddColumnQueryBuilder",
     databaseName |-> databaseName, tableName |-> tableName, columns |-> columns,
     clusterName |-> Nil]

NewAlterTableDropColumn(databaseName, tableName, columnNames) ==
    [builder |-> "AlterTableDropColumnQueryBuilder",
     databaseName |-> databaseName, tableName |-> tableName,
     columnNames |-> columnNames, clusterName |-> Nil]

NewDropTable(databaseName, tableName) ==
    [builder |-> "dropTableQueryBuilder",
     databaseName |-> databaseName, tableName |-> tableName, clusterName |-> Nil]

\* the orders in which a range loop may visit the keys of a map
RangeOrders(m) ==
    {keys \in [1..Cardinality(DOMAIN m) -> DOMAIN m] :
        \A i, j \in DOMAIN keys : i # j => keys[i] # keys[j]}

\* names in backticks, joined by ", "
backtickList(names) ==
    Join([i \in 1..Len(names) |-> backtick(names[i])], ", ")

\* createTableValidation, but an empty engine passes
createTableValidationNoEngine(b) ==
    IF b.databaseName = ""
    THEN "databaseName cannot be empty for CREATE TABLE queries"
    ELSE IF b.tableName = ""
    THEN "tableName cannot be empty for CREATE TABLE queries"
    ELSE IF Len(b.columns) = 0
    THEN "columns cannot be empty for CREATE TABLE queries"
    ELSE NoErr

\* createTableQueryBuilder.Build: the four checks, in order
createTableValidation(b) ==
    IF b.databaseName = ""
    THEN "databaseName cannot be empty for CREATE TABLE queries"
    ELSE IF b.tableName = ""
    THEN "tableName cannot be empty for CREATE TABLE queries"
    ELSE IF Len(b.columns) = 0
    THEN "columns cannot be empty for CREATE TABLE queries"
    ELSE IF b.engine = ""
    THEN "engine cannot be empty for CREATE TABLE queries"
    ELSE NoErr

\* createTableQueryBuilder.Build: one column definition
createTableColumn(col) ==
    backtick(col.name) \o " " \o col.type
    \o (IF col.default # Nil THEN " DEFAULT " \o col.default ELSE "")
    \o (IF col.comment # Nil THEN " COMMENT " \o quote(col.comment) ELSE "")

\* createTableQueryBuilder.Build: what it writes to the strings.Builder, piece
\* by piece; keys is the order in which the range loop visits q.settings
createTableClauses(b, keys) ==
    << "CREATE TABLE " \o backtick(b.databaseName) \o "." \o backtick(b.tableName),
       IF b.clusterName # Nil THEN " ON CLUSTER " \o quote(b.clusterName) ELSE "",
       " (" \o Join([i \in 1..Len(b.columns) |-> createTableColumn(b.columns[i])],
                    ", ") \o ")",
       " ENGINE = " \o b.engine,
       IF Len(b.orderBy) > 0
       THEN " ORDER BY (" \o backtickList(b.orderBy) \o ")" ELSE "",
       IF b.partitionBy # Nil THEN " PARTITION BY " \o b.partitionBy ELSE "",
       IF Len(b.primaryKey) > 0
       THEN " PRIMARY KEY (" \o backtickList(b.primaryKey) \o ")" ELSE "",
       IF b.sampleBy # Nil THEN " SAMPLE BY " \o b.sampleBy ELSE "",
       IF b.ttl # Nil THEN " TTL " \o b.ttl ELSE "",
       IF Cardinality(DOMAIN b.settings) > 0
       THEN " SETTINGS "
            \o Join([i \in 1..Len(keys) |-> keys[i] \o " = " \o b.settings[keys[i]]],
                    ", ")
       ELSE "",
       IF b.comment # Nil THEN " COMMENT " \o quote(b.comment) ELSE "",
       ";" >>

\* createTableStatement, but ORDER BY is written before ENGINE
createTableStatementOrderByFirst(b, keys) ==
    The({ Join([i \in 1..Len(c) |-> c[CASE i = 4 -> 5 [] i = 5 -> 4 [] OTHER -> i]],
               "")
          : c \in {createTableClauses(b, keys)} })

\* createTableQueryBuilder.Build: sb.String()
createTableStatement(b, keys) == Join(createTableClauses(b, keys), "")

\* createTableQueryBuilder.Build -> (string, error)
createTableQueryBuilderBuild(b, keys) ==
    The({ IF err # NoErr THEN [sql |-> "", err |-> err]
          ELSE [sql |-> createTableStatement(b, keys), err |-> NoErr]
          : err \in {createTableValidation(b)} })

\* the three checks of both ALTER TABLE builders, in order
alterTableValidation(b, list, listError) ==
    IF b.databaseName = "" THEN "database name is required"
    ELSE IF b.tableName = "" THEN "table name is required"
    ELSE IF Len(list) = 0 THEN listError
    ELSE NoErr

\* both ALTER TABLE builders: ALTER TABLE `db`.`t` [ON CLUSTER 'c']
alterTableHead(b) ==
    "ALTER TABLE " \o backtick(b.databaseName) \o "." \o backtick(b.tableName)
    \o (IF b.clusterName # Nil /\ b.clusterName # ""
        THEN " ON CLUSTER " \o quote(b.clusterName) ELSE "")

\* AlterTableAddColumnQueryBuilder.Build: the statement
addColumnStatement(b) ==
    alterTableHead(b)
    \o Join([i \in 1..Len(b.columns) |->
                " ADD COLUMN " \o backtick(b.columns[i].name) \o " "
                \o b.columns[i].type
                \o (IF b.columns[i].default # Nil /\ b.columns[i].default # ""
                    THEN " DEFAULT " \o b.columns[i].default ELSE "")
                \o (IF b.columns[i].comment # Nil /\ b.columns[i].comment # ""
                    THEN " COMMENT " \o quote(b.columns[i].comment) ELSE "")],
            ",")

\* AlterTableAddColumnQueryBuilder.Build, but the statement ends in ";"
AlterTableAddColumnQueryBuilderBuildTerminated(b) ==
    The({ IF err # NoErr THEN [sql |-> "", err |-> err]
          ELSE [sql |-> addColumnStatement(b) \o ";", err |-> NoErr]
          : err \in {alterTableValidation(b, b.columns,
                                          "at least one column is required")} })

\* AlterTableAddColumnQueryBuilder.Build -> (string, error)
AlterTableAddColumnQueryBuilderBuild(b) ==
    The({ IF err # NoErr THEN [sql |-> "", err |-> err]
          ELSE [sql |-> addColumnStatement(b), err |-> NoErr]
          : err \in {alterTableValidation(b, b.columns,
                                          "at least one column is required")} })

\* AlterTableDropColumnQueryBuilder.Build: the statement
dropColumnStatement(b) ==
    alterTableHead(b)
    \o Join([i \in 1..Len(b.columnNames) |->
                " DROP COLUMN " \o backtick(b.columnNames[i])],
            ",")

\* AlterTableDropColumnQueryBuilder.Build -> (string, error)
AlterTableDropColumnQueryBuilderBuild(b) ==
    The({ IF err # NoErr THEN [sql |-> "", err |-> err]
          ELSE [sql |-> dropColumnStatement(b), err |-> NoErr]
          : err \in {alterTableValidation(b, b.columnNames,
                                          "at least one column name is required")} })

\* dropTableQueryBuilder.Build
dropTableQueryBuilderBuild(b) ==
    IF b.databaseName = ""
    THEN [sql |-> "", err |-> "databaseName cannot be empty for DROP TABLE queries"]
    ELSE IF b.tableName = ""
    THEN [sql |-> "", err |-> "tableName cannot be empty for DROP TABLE queries"]
    ELSE [sql |-> Join(<<"DROP", "TABLE",
                         backtick(b.databaseName) \o "." \o backtick(b.tableName)>>
                       \o (IF b.clusterName # Nil
                           THEN <<"ON", "CLUSTER", quote(b.clusterName)>>
                           ELSE <<>>), " ") \o ";",
          err |-> NoErr]

\* ------------------------------------------------- the builders' inputs
BuilderColumns ==
    [id |-> [name |-> "id", type |-> "UInt64", default |-> Nil, comment |-> Nil],
     ts |-> [name |-> "ts", type |-> "DateTime", default |-> "now()",
             comment |-> "event time"],
     n  |-> [name |-> "n", type |-> "String", default |-> "", comment |-> ""]]

\* database name, table name and column list of a CREATE TABLE builder
CreateTableInputs ==
    {<<"db", "t", <<BuilderColumns.id>>>>,
     <<"db", "t", <<BuilderColumns.id, BuilderColumns.ts>>>>,
     <<"", "t", <<BuilderColumns.id>>>>,
     <<"db", "", <<BuilderColumns.id>>>>,
     <<"db", "t", <<>>>>,
     <<"", "", <<>>>>}

BuilderNames == {<<"db", "t">>, <<"", "t">>, <<"db", "">>}

AddColumnLists ==
    {<<>>, <<BuilderColumns.id>>, <<BuilderColumns.ts, BuilderColumns.id>>,
     <<BuilderColumns.n, BuilderColumns.ts>>}

DropColumnLists == {<<>>, <<"id">>, <<"ts", "id">>}

BuilderSettings ==
    {MapPut(EmptyMap, "index_granularity", "8192"),
     MapPut(MapPut(EmptyMap, "index_granularity", "8192"),
            "merge_with_ttl_timeout", "3600")}

BuildInit ==
    /\ q \in {NewCreateTable(in[1], in[2], in[3]) : in \in CreateTableInputs}
          \cup {NewAlterTableAddColumn(names[1], names[2], columns) :
                   names \in BuilderNames, columns \in AddColumnLists}
          \cup {NewAlterTableDropColumn(names[1], names[2], columnNames) :
                   names \in BuilderNames, columnNames \in DropColumnLists}
          \cup {NewDropTable(names[1], names[2]) : names \in BuilderNames}
    /\ built = <<>>
    /\ catalog = {} /\ nextUuid = 1 /\ state = None /\ op = "init"
    /\ plan = None /\ prior = None /\ sent = <<>> /\ replies = <<>>
    /\ diags = <<>> /\ panicked = FALSE /\ diff = NoDiff /\ replace = <<>>
    /\ call = None /\ ret = None

\* a setter of the CREATE TABLE builder stored its argument: the builder is b
Set(b) ==
    /\ built = <<>>
    /\ q' = b
    /\ UNCHANGED <<catalog, nextUuid, state, op, plan, prior, sent, replies,
                   diags, panicked, diff, replace, call, ret, built>>

WithCluster ==
    /\ q.builder = "createTableQueryBuilder"
    /\ \E clusterName \in {Nil, "", "c"} :
          Set([q EXCEPT !.clusterName = clusterName])

WithEngine ==
    /\ q.builder = "createTableQueryBuilder"
    /\ Set([q EXCEPT !.engine = "MergeTree()"])

WithOrderBy ==
    /\ q.builder = "createTableQueryBuilder"
    /\ Set([q EXCEPT !.orderBy = <<"id">>])

WithPartitionBy ==
    /\ q.builder = "createTableQueryBuilder"
    /\ Set([q EXCEPT !.partitionBy = "toYYYYMM(ts)"])

WithPrimaryKey ==
    /\ q.builder = "createTableQueryBuilder"
    /\ Set([q EXCEPT !.primaryKey = <<"id">>])

WithSampleBy ==
    /\ q.builder = "createTableQueryBuilder"
    /\ Set([q EXCEPT !.sampleBy = "id"])

WithTTL ==
    /\ q.builder = "createTableQueryBuilder"
    /\ Set([q EXCEPT !.ttl = "ts + INTERVAL 1 DAY"])

WithSettings ==
    /\ q.builder = "createTableQueryBuilder"
    /\ \E settings \in BuilderSettings : Set([q EXCEPT !.settings = settings])

WithComment ==
    /\ q.builder = "createTableQueryBuilder"
    /\ \E comment \in {"", "events"} : Set([q EXCEPT !.comment = comment])

\* WithCluster of the two ALTER TABLE builders and of the DROP TABLE builder
AlterWithCluster ==
    /\ q.builder # "createTableQueryBuilder"
    /\ built = <<>>
    /\ \E clusterName \in {Nil, "", "c"} : q' = [q EXCEPT !.clusterName = clusterName]
    /\ UNCHANGED <<catalog, nextUuid, state, op, plan, prior, sent, replies,
                   diags, panicked, diff, replace, call, ret, built>>

\* Build returned r
Built(r) ==
    /\ Len(built) < MaxBuilds
    /\ built' = Append(built, r)
    /\ UNCHANGED <<catalog, nextUuid, state, op, plan, prior, sent, replies,
                   diags, panicked, diff, replace, call, ret, q>>

CreateTableBuild ==
    /\ q.builder = "createTableQueryBuilder"
    /\ \E keys \in RangeOrders(q.settings) :
          Built(createTableQueryBuilderBuild(q, keys))

AddColumnBuild ==
    /\ q.builder = "AlterTableAddColumnQueryBuilder"
    /\ Built(AlterTableAddColumnQueryBuilderBuild(q))

DropColumnBuild ==
    /\ q.builder = "AlterTableDropColumnQueryBuilder"
    /\ Built(AlterTableDropColumnQueryBuilderBuild(q))

DropTableBuild ==
    /\ q.builder = "dropTableQueryBuilder"
    /\ Built(dropTableQueryBuilderBuild(q))

BuildNext ==
    \/ WithCluster
    \/ WithEngine
    \/ WithOrderBy
    \/ WithPartitionBy
    \/ WithPrimaryKey
    \/ WithSampleBy
    \/ WithTTL
    \/ WithSettings
    \/ WithComment
    \/ AlterWithCluster
    \/ CreateTableBuild
    \/ AddColumnBuild
    \/ DropColumnBuild
    \/ DropTableBuild

SpecBuild == BuildInit /\ [][BuildNext]_vars

\* --------------------------------------------------------- terraform import
\* The model's uuid n stands for this text of it.
UuidText(n) == "00000000-0000-0000-0000-00000000000" \o ToString(n)

\* uuid.Parse(tableRef) returns no error: the 36-character form with dashes at
\* 9, 14, 19 and 24, or 32 hexadecimal digits
uuidParse(s) ==
    LET hex == {"0", "1", "2", "3", "4", "5", "6", "7", "8", "9",
                "a", "b", "c", "d", "e", "f", "A", "B", "C", "D", "E", "F"}
        dashes == {9, 14, 19, 24}
    IN \/ /\ Len(s) = 36
          /\ \A i \in dashes : SubSeq(s, i, i) = "-"
          /\ \A i \in (1..36) \ dashes : SubSeq(s, i, i) \in hex
       \/ /\ Len(s) = 32
          /\ \A i \in 1..32 : SubSeq(s, i, i) \in hex

\* ImportedState, but the import sets allow_drops
ImportedStateDroppable(clusterName, uuid, databaseName, name, engine, comment) ==
    [cluster_name |-> clusterName,
     uuid |-> uuid,
     database_name |-> databaseName,
     name |-> name,
     columns |-> <<>>,
     engine |-> engine,
     order_by |-> <<>>,
     partition_by |-> Nil,
     primary_key |-> <<>>,
     sample_by |-> Nil,
     ttl |-> Nil,
     settings |-> EmptyMap,
     comment |-> comment,
     allow_drops |-> "true"]

\* the state ImportState sets attribute by attribute; the rest stays null
ImportedState(clusterName, uuid, databaseName, name, engine, comment) ==
    [cluster_name |-> clusterName,
     uuid |-> uuid,
     database_name |-> databaseName,
     name |-> name,
     columns |-> <<>>,
     engine |-> engine,
     order_by |-> <<>>,
     partition_by |-> Nil,
     primary_key |-> <<>>,
     sample_by |-> Nil,
     ttl |-> Nil,
     settings |-> EmptyMap,
     comment |-> comment,
     allow_drops |-> Nil]

\* ImportState, but every ID of two or more parts is accepted
ResourceImportStateAnyParts(w, id) ==
    The({ IF Len(parts) < 2
          THEN Response(w, <<Diag("error", "Invalid import ID format", {})>>,
                        None, FALSE)
          ELSE The({ IF uuidParse(tableRef)
                     THEN Response(w, <<>>,
                              Some(ImportedState(clusterName,
                                       The({n \in 0..9 : UuidText(n) = tableRef}),
                                       databaseName, Nil, Nil, Nil)), FALSE)
                     ELSE The({ IF f.err # NoErr
                                THEN Response(f.w, <<Diag("error", "Cannot find table",
                                                          {})>>, None, FALSE)
                                ELSE IF f.table = None
                                THEN Response(f.w, <<>>, None, TRUE)
                                ELSE Response(f.w, <<>>,
                                         Some(ImportedState(clusterName,
                                                  f.table[1].UUID, databaseName,
                                                  f.table[1].Name,
                                                  f.table[1].Engine,
                                                  f.table[1].Comment)), FALSE)
                                : f \in {FindTableByName(w, databaseName, tableRef,
                                                         clusterName)} })
                     : clusterName \in {IF Len(parts) >= 3 THEN parts[1] ELSE Nil},
                       databaseName \in {IF Len(parts) >= 3 THEN parts[2]
                                         ELSE parts[1]},
                       tableRef \in {IF Len(parts) >= 3 THEN parts[3]
                                     ELSE parts[2]} })
          : parts \in {Split(id, ":")} })

\* Resource.ImportState; resp.State starts null
ResourceImportState(w, id) ==
    The({ IF Len(parts) < 2 \/ Len(parts) > 3
          THEN Response(w, <<Diag("error", "Invalid import ID format", {})>>,
                        None, FALSE)
          ELSE The({ IF uuidParse(tableRef)
                     THEN Response(w, <<>>,
                              Some(ImportedState(clusterName,
                                       The({n \in 0..9 : UuidText(n) = tableRef}),
                                       databaseName, Nil, Nil, Nil)), FALSE)
                     ELSE The({ IF f.err # NoErr
                                THEN Response(f.w, <<Diag("error", "Cannot find table",
                                                          {})>>, None, FALSE)
                                ELSE IF f.table = None
                                THEN Response(f.w, <<>>, None, TRUE) \* table.UUID on nil
                                ELSE Response(f.w, <<>>,
                                         Some(ImportedState(clusterName,
                                                  f.table[1].UUID, databaseName,
                                                  f.table[1].Name,
                                                  f.table[1].Engine,
                                                  f.table[1].Comment)), FALSE)
                                : f \in {FindTableByName(w, databaseName, tableRef,
                                                         clusterName)} })
                     : clusterName \in {IF Len(parts) = 3 THEN parts[1] ELSE Nil},
                       databaseName \in {IF Len(parts) = 3 THEN parts[2]
                                         ELSE parts[1]},
                       tableRef \in {IF Len(parts) = 3 THEN parts[3]
                                     ELSE parts[2]} })
          : parts \in {Split(id, ":")} })

\* the IDs handed to terraform import: by name, by uuid, with a cluster, with
\* too few and too many parts
ImportIDs ==
    {"t", "db:t", "c:db:t", "a:b:c:d"}
    \cup {"db:" \o UuidText(n) : n \in 1..MaxUuid}

\* the executor calls of the longest ImportState, in order
ImportCalls == <<"SELECT uuid BY name", "SELECT tables BY uuid", "SELECT columns">>

\* Before the import the catalog is empty, or holds one table that another
\* operator created, under either name.
ImportInit ==
    /\ \/ catalog = {} /\ nextUuid = 1
       \/ \E columns \in {s \in PlanColumnLists : NamesOf(s) = {"a", "b"}},
             n \in TableNames :
             \E r \in {Created(columns)} :
                /\ catalog = {[o EXCEPT !.name = n] : o \in r.w.cat}
                /\ nextUuid = r.w.nextUuid
    /\ state = None
    /\ op = "init"
    /\ plan = None
    /\ prior = None
    /\ sent = <<>>
    /\ replies = <<>>
    /\ diags = <<>>
    /\ panicked = FALSE
    /\ diff = NoDiff
    /\ replace = <<>>
    /\ call = None
    /\ ret = None
    /\ q = None
    /\ built = <<>>

\* terraform import: Resource.ImportState, then the framework saves
\* resp.State unless ImportState reported an error
ImportState ==
    /\ state = None
    /\ \E id \in ImportIDs, fault \in Faults(Len(ImportCalls)) :
          \E r \in {ResourceImportState(World(catalog, nextUuid, fault), id)} :
             /\ op' = "ImportState"
             /\ plan' = Some([id |-> id])        \* req.ID
             /\ state' = r.state
             /\ prior' = state
             /\ catalog' = r.w.cat
             /\ nextUuid' = r.w.nextUuid
             /\ sent' = r.w.sent
             /\ replies' = r.w.replies
             /\ diags' = r.diags
             /\ panicked' = r.panic
             /\ diff' = NoDiff
             /\ replace' = <<>>
    /\ UNCHANGED <<call, ret, q, built>>

\* terraform import refreshes the imported resource before anything else
ImportRefresh ==
    /\ op = "ImportState" /\ state # None
    /\ Read

\* the operations on a resource that is managed, or not there yet; the
\* configuration's table is created only in an empty catalog
Managed ==
    /\ ~(op = "ImportState" /\ state # None)
    /\ \/ catalog = {} /\ Create
       \/ Read
       \/ Update
       \/ Delete

SpecImport == ImportInit /\ [][ImportState \/ ImportRefresh \/ Managed]_vars

\* ------------------------------------------- the descriptor parser alone
\* Engine descriptors (engine_full of system.tables) and the parts they are
\* written from: the engine with its keys, a TTL expression or none, settings
\* or none; as the server prints them, or with looser spacing.
DescriptorParts ==
    {[engine |-> e, ttl |-> t, settings |-> s, style |-> y,
      text |-> e
          \o (IF t = None THEN ""
              ELSE IF y = "server" THEN " TTL " \o t[1]
              ELSE " TTL  " \o t[1] \o " ")
          \o (IF s = <<>> THEN ""
              ELSE " SETTINGS "
                   \o Join([i \in 1..Len(s) |->
                               s[i][1] \o (IF y = "server" THEN " = " ELSE "=")
                               \o s[i][2]],
                           IF y = "server" THEN ", " ELSE " , "))] :
        e \in {"Memory", "MergeTree ORDER BY a", "MergeTree PARTITION BY b ORDER BY a",
               "ReplacingMergeTree ORDER BY (a, b)"},
        t \in {None, Some("d + toIntervalDay(1)"),
               Some("d + toIntervalDay(1), e + toIntervalYear(1) DELETE")},
        s \in {<<>>, <<<<"index_granularity", "8192">>>>,
               <<<<"index_granularity", "8192">>, <<"storage_policy", "'hot'">>>>},
        y \in {"server", "loose"}}

ParseInit ==
    /\ \E p \in DescriptorParts : call = Some(p)
    /\ ret = None
    /\ op = "init"
    /\ catalog = {}
    /\ nextUuid = 1
    /\ state = None
    /\ plan = None
    /\ prior = None
    /\ sent = <<>>
    /\ replies = <<>>
    /\ diags = <<>>
    /\ panicked = FALSE
    /\ diff = NoDiff
    /\ replace = <<>>
    /\ q = None
    /\ built = <<>>

\* GetTable hands the engine_full it read to the parser
ParseEngineFull ==
    /\ op = "init"
    /\ op' = "parseEngineFullForTTLAndSettings"
    /\ ret' = Some(parseEngineFullForTTLAndSettings(call[1].text))
    /\ UNCHANGED <<catalog, nextUuid, state, plan, prior, sent, replies, diags,
                   panicked, diff, replace, call, q, built>>

SpecParse == ParseInit /\ [][ParseEngineFull]_vars

\* ------------------------------------------------- the column list alone
\* Create and Update with columns that carry defaults and comments, and Read.
ColumnsCreate ==
    /\ state = None
    /\ nextUuid <= MaxUuid
    /\ \E columns \in ColumnLists({c \in DeclaredColumns : c.name \in {"a", "b"}},
                                 MaxCols) :
          \E r \in {ResourceCreate(World(catalog, nextUuid, NoFault),
                                   Config(columns, "true"))} :
             /\ Record("Create", Some(Config(columns, "true")), r)
             /\ state' = r.state

ColumnsUpdate ==
    /\ state # None
    /\ \E columns \in ColumnLists({c \in DeclaredColumns : c.name \in {"a", "b"}},
                                 MaxCols) :
          \E p \in {[state[1] EXCEPT !.columns = columns]} :
             \E r \in {ResourceUpdate(World(catalog, nextUuid, NoFault), p,
                                      state[1])} :
                /\ Record("Update", Some(p), r)
                /\ state' = r.state

SpecColumns == Init /\ [][ColumnsCreate \/ ColumnsUpdate \/ Read]_vars

\* ------------------------------------------------------------ the claims
\* positions of the statements of one kind among those sent
SentOfKind(kind) == {i \in 1..Len(sent) : sent[i].kind = kind}

\* observed columns the plan no longer declares, and columns new in the plan
Missing == NamesOf(prior[1].columns) \ NamesOf(plan[1].columns)
New == NamesOf(plan[1].columns) \ NamesOf(prior[1].columns)

\* the index of the column called n in a list with unique names
PositionIn(names, n) == CHOOSE i \in 1..Len(names) : names[i] = n

\* the names of a column list, in order
NameList(cols) == [i \in 1..Len(cols) |-> cols[i].name]

\* the update is refused: a column would be dropped and allow_drops is false
Denied == Missing # {} /\ ~ValueBool(plan[1].allow_drops)

\* a column the plan no longer declares is in the observed ORDER BY
DroppedOrderBy == Missing \cap Range(prior[1].order_by) # {}

\* a column declared and observed under the same name changes its type
TypeChanged ==
    \E i \in 1..Len(prior[1].columns), j \in 1..Len(plan[1].columns) :
        /\ prior[1].columns[i].name = plan[1].columns[j].name
        /\ prior[1].columns[i].type # plan[1].columns[j].type

\* C1: a DROP COLUMN statement is sent only by an Update whose plan has
\* allow_drops = true, and a DROP TABLE statement only by a Delete whose
\* persisted state has allow_drops = true; so with allow_drops = false no
\* DROP statement of either kind is sent.
C1_DropOnlyWhenAllowed ==
    \A i \in 1..Len(sent) :
        /\ sent[i].kind = "DROP COLUMN" =>
              op = "Update" /\ ValueBool(plan[1].allow_drops)
        /\ sent[i].kind = "DROP TABLE" =>
              op = "Delete" /\ ValueBool(prior[1].allow_drops)

C1_Witness ==
    /\ op = "Update"
    /\ \E i \in 1..Len(sent) : sent[i].kind = "DROP COLUMN" /\ replies[i] = "ok"

\* C2: Delete with allow_drops = false in the persisted state reports the
\* error "Table deletion not allowed" naming the table and hands no statement
\* to the executor, no catalog query and no DROP TABLE, whether or not the
\* table still exists.
C2_DeleteDenied ==
    (op = "Delete" /\ ~ValueBool(prior[1].allow_drops)) =>
        /\ sent = <<>>
        /\ diags = <<Diag("error", "Table deletion not allowed", {prior[1].name})>>

C2_Witness ==
    /\ op = "Delete"
    /\ ~ValueBool(prior[1].allow_drops)
    /\ \A r \in catalog : r.uuid # prior[1].uuid
    /\ HasError(diags)

C4_UpdateDenied ==
    (op = "Update" /\ Denied) =>
        /\ sent = <<>>
        /\ diags = <<Diag("error", "Column removal not allowed", Missing)>>
        /\ state = prior

C4_Witness ==
    /\ op = "Update"
    /\ Denied
    /\ New # {}
    /\ HasError(diags)

\* C5: for declared and observed column lists with unique names, Update
\* computes columnsToAdd = the declared columns whose name is not observed, in
\* declared order, and columnsToRemove = the observed names not declared, in
\* observed order; the two are disjoint and a name in both lists is in neither.
C5_Diff ==
    op = "Update" =>
        LET declared == plan[1].columns
            observed == prior[1].columns
            add == diff.columnsToAdd
            remove == diff.columnsToRemove
        IN /\ Range(add) = {declared[i] : i \in {j \in 1..Len(declared) :
                                   declared[j].name \notin NamesOf(observed)}}
           /\ \A i, j \in 1..Len(add) :
                 i < j => PositionIn(NameList(declared), add[i].name)
                            < PositionIn(NameList(declared), add[j].name)
           /\ Range(remove) = NamesOf(observed) \ NamesOf(declared)
           /\ \A i, j \in 1..Len(remove) :
                 i < j => PositionIn(NameList(observed), remove[i])
                            < PositionIn(NameList(observed), remove[j])
           /\ NamesOf(add) \cap Range(remove) = {}
           /\ \A n \in NamesOf(declared) \cap NamesOf(observed) :
                 n \notin NamesOf(add) /\ n \notin Range(remove)

C5_Witness ==
    /\ op = "Update"
    /\ Len(diff.columnsToAdd) = 1
    /\ Len(diff.columnsToRemove) = 1
    /\ NamesOf(plan[1].columns) \cap NamesOf(prior[1].columns) # {}

UpdateOrder ==
    (IF Missing # {} THEN <<"DROP COLUMN">> ELSE <<>>)
    \o (IF New # {} THEN <<"ADD COLUMN">> ELSE <<>>)
    \o <<"SELECT tables BY uuid", "SELECT columns">>

\* C7: an Update with allow_drops = true sends at most one DROP COLUMN, then at
\* most one ADD COLUMN, then re-reads the catalog by the state's uuid; each
\* statement is sent only after the one before succeeded, and an ALTER is sent
\* only for a non-empty column set (none when the name sets are equal).
C7_DropThenAdd ==
    (op = "Update" /\ ValueBool(plan[1].allow_drops)) =>
        /\ Len(sent) <= Len(UpdateOrder)
        /\ \A i \in 1..Len(sent) : sent[i].kind = UpdateOrder[i]
        /\ \A i \in 1..(Len(sent) - 1) : replies[i] # "error"
        /\ \A i \in SentOfKind("DROP COLUMN") :
              Range(sent[i].columnNames) = Missing
        /\ \A i \in SentOfKind("ADD COLUMN") :
              NamesOf(sent[i].columns) = New
        /\ \A i \in SentOfKind("SELECT tables BY uuid") :
              sent[i].uuid = prior[1].uuid

C7_Witness ==
    /\ op = "Update"
    /\ Len(sent) = 4
    /\ sent[1].kind = "DROP COLUMN" /\ replies[1] = "ok"
    /\ sent[2].kind = "ADD COLUMN" /\ replies[2] = "ok"
    /\ sent[3].kind = "SELECT tables BY uuid"
    /\ ~HasError(diags)

\* C8 as claimed: if the CREATE statement succeeds but a read after it finds
\* no row (the lookup by name, or the read by the uuid the lookup resolved),
\* Create reports an error, persists no state and returns without a panic.
C8_Claim ==
    (/\ op = "Create"
     /\ Len(replies) >= 2
     /\ replies[1] = "ok"
     /\ \/ replies[2] = "no rows"
        \/ Len(replies) >= 3 /\ replies[3] = "no rows") =>
        /\ ~panicked
        /\ HasError(diags)
        /\ state = None

\* C9: a Read whose uuid no longer resolves removes the resource from the
\* persisted state and reports no error; a Read whose uuid resolves never
\* removes it; a Read that meets an executor error reports it and leaves the
\* persisted state as it was.
C9_ReadTombstone ==
    op = "Read" =>
        /\ replies[1] = "no rows" => state = None /\ diags = <<>>
        /\ replies[1] = "rows" => state # None
        /\ "error" \in Range(replies) => state = prior /\ HasError(diags)

C9_Witness ==
    /\ op = "Read"
    /\ replies = <<"no rows">>
    /\ prior # None
    /\ state = None

\* C10: a Delete with allow_drops = true whose uuid no longer resolves returns
\* success without sending DROP TABLE (and the resource leaves the state); when
\* the catalog read returns the table it sends exactly one DROP TABLE.
C10_DeleteAbsent ==
    (op = "Delete" /\ ValueBool(prior[1].allow_drops)) =>
        /\ replies[1] = "no rows" =>
              /\ diags = <<>>
              /\ SentOfKind("DROP TABLE") = {}
              /\ state = None
        /\ (Len(replies) >= 2 /\ replies[1] = "rows" /\ replies[2] # "error") =>
              Cardinality(SentOfKind("DROP TABLE")) = 1

C10_Witness ==
    /\ op = "Delete"
    /\ ValueBool(prior[1].allow_drops)
    /\ replies = <<"no rows">>
    /\ diags = <<>>

\* ---- C11 ----
\* GetTable(uuid) returns no table and no error when the table-descriptor
\* query yields zero rows, and it does not issue the column-list query then;
\* it returns an error exactly when one of its queries failed.
C11_GetTableAbsent ==
    op = "GetTable" =>
        /\ sent[1] = SelectTablesByUuid(call.uuid, Nil)
        /\ replies[1] = "no rows" =>
              /\ ret = [err |-> NoErr, table |-> None]
              /\ Len(sent) = 1
        /\ ret.err # NoErr <=> "error" \in Range(replies)
        /\ ret.err # NoErr => ret.table = None

\* the descriptor query found no row although the catalog holds other tables
C11_Witness ==
    /\ op = "GetTable"
    /\ replies = <<"no rows">>
    /\ ret = [err |-> NoErr, table |-> None]
    /\ call.w.cat # {}
    /\ call.w.failAt = 0

\* ---- C12 ----
\* FindTableByName fails with "table with such name not found" when the lookup
\* by name matches no row, and does not call GetTable then; when a row matches
\* it returns exactly what GetTable returns for the uuid of that row.
C12_FindTableByName ==
    op = "FindTableByName" =>
        /\ sent[1] = SelectUuidByName(call.databaseName, call.tableName, Nil)
        /\ replies[1] = "no rows" =>
              /\ ret = [err |-> "table with such name not found", table |-> None]
              /\ Len(sent) = 1
        /\ replies[1] = "rows" =>
              \E first \in {Select(call.w, sent[1])} :
                 \E row \in first.rows :
                    \E g \in {GetTable(first.w, row.uuid, Nil)} :
                       /\ ret = [err |-> g.err, table |-> g.table]
                       /\ sent = g.w.sent
                       /\ replies = g.w.replies

\* the name matched a row and the table of that row came back
C12_Witness ==
    /\ op = "FindTableByName"
    /\ replies = <<"rows", "rows", "rows">>
    /\ ret.err = NoErr
    /\ ret.table # None
    /\ ret.table[1].Name = call.tableName
    /\ ret.table[1].UUID \in {t.uuid : t \in call.w.cat}

\* ---------------- the claims about the state Create, Read and Update write
\* a handler of the three wrote the state from a table it found
Synced == op \in {"Create", "Read", "Update"} /\ state # None /\ ~HasError(diags)

\* the declared table: the plan of Create and Update, the prior state of Read
Declared == IF op = "Read" THEN prior[1] ELSE plan[1]

\* the row of the catalog the state was written from
Observed == CHOOSE row \in catalog : row.uuid = state[1].uuid

\* the text before the first "(", trimmed
FamilyOf(engine) ==
    IF Index(engine, "(") = 0 THEN TrimSpace(engine)
    ELSE TrimSpace(SubSeq(engine, 1, Index(engine, "(") - 1))

PlainFamilies ==
    {"MergeTree", "ReplacingMergeTree", "SummingMergeTree", "AggregatingMergeTree",
     "CollapsingMergeTree", "VersionedCollapsingMergeTree"}

AliasPairs == {<<f, "Shared" \o f>> : f \in PlainFamilies}

Aliased(a, b) == <<a, b>> \in AliasPairs \/ <<b, a>> \in AliasPairs

\* ---- C13 ----
\* The engine in the state that Create, Read or Update writes is the declared
\* engine string when the declared and the observed engine family are equal or
\* a pair of the alias table in either direction, and the observed engine
\* string otherwise; the alias test of the code is symmetric.
C13_Engine ==
    /\ Synced =>
          state[1].engine =
              IF \/ FamilyOf(Declared.engine) = FamilyOf(Observed.engine)
                 \/ Aliased(FamilyOf(Declared.engine), FamilyOf(Observed.engine))
              THEN Declared.engine
              ELSE Observed.engine
    /\ \A a, b \in PlainFamilies \cup {"Shared" \o f : f \in PlainFamilies}
                   \cup {"Log"} :
          /\ isCloudEngineTransformation(a, b) <=> isCloudEngineTransformation(b, a)
          /\ isCloudEngineTransformation(a, b) <=> Aliased(a, b)

\* the reverse direction: declared shared, observed plain
C13_Witness ==
    /\ Synced
    /\ op = "Read"
    /\ Declared.engine = "SharedMergeTree"
    /\ Observed.engine = "MergeTree"
    /\ state[1].engine = "SharedMergeTree"

\* ---- C14 ----
\* The settings in the written state are exactly the keys that are both
\* declared and observed, each with its observed value; a setting the catalog
\* reports but the declaration lacks is not in the state.
C14_Settings ==
    Synced =>
        \E observed \in {parseEngineFullForTTLAndSettings(Observed.engine_full)
                             .settings} :
           /\ DOMAIN state[1].settings
                 = DOMAIN Declared.settings \cap DOMAIN observed
           /\ \A k \in DOMAIN state[1].settings : state[1].settings[k] = observed[k]

\* declared {index_granularity: 8192, min_rows}, observed {index_granularity:
\* 4096, storage_policy}: the state holds index_granularity = 4096 alone
C14_Witness ==
    /\ Synced
    /\ op = "Update"
    /\ DOMAIN Declared.settings = {"index_granularity", "min_rows"}
    /\ Declared.settings["index_granularity"] = "8192"
    /\ DOMAIN parseEngineFullForTTLAndSettings(Observed.engine_full).settings
          = {"index_granularity", "storage_policy"}
    /\ DOMAIN state[1].settings = {"index_granularity"}
    /\ state[1].settings["index_granularity"] = "4096"

\* ---- C15 ----
\* A declared empty primary key with a non-empty primary key in the catalog
\* leaves the declared empty list in the state; a declared non-empty primary
\* key leaves the primary key of the catalog in the state.
C15_PrimaryKey ==
    Synced =>
        \E observed \in {parseKeyColumns(Observed.primary_key)} :
           /\ Len(Declared.primary_key) = 0 /\ Len(observed) > 0
                 => state[1].primary_key = <<>>
           /\ Len(Declared.primary_key) > 0 => state[1].primary_key = observed

\* the server inferred the primary key from ORDER BY
C15_Witness ==
    /\ Synced
    /\ op = "Create"
    /\ Declared.primary_key = <<>>
    /\ Observed.primary_key = "a"
    /\ state[1].primary_key = <<>>

\* ---- C16 ----
\* With a TTL declared and a TTL in the catalog the state holds the declared
\* TTL string; with no TTL in the catalog the state holds none, declared or
\* not; with none declared the state holds the TTL of the catalog.
C16_TTL ==
    Synced =>
        \E observed \in {parseEngineFullForTTLAndSettings(Observed.engine_full)
                             .ttl} :
           /\ Declared.ttl # Nil /\ observed # "" => state[1].ttl = Declared.ttl
           /\ observed = "" => state[1].ttl = Nil
           /\ Declared.ttl = Nil /\ observed # "" => state[1].ttl = observed

\* the server reformatted the declared TTL
C16_Witness ==
    /\ Synced
    /\ op = "Read"
    /\ Declared.ttl = "d + INTERVAL 1 DAY"
    /\ parseEngineFullForTTLAndSettings(Observed.engine_full).ttl
          = "d + toIntervalDay(1)"
    /\ state[1].ttl = "d + INTERVAL 1 DAY"

\* ------------------------------------ the claims about the statement texts
CreateBuilder == q # None /\ q.builder = "createTableQueryBuilder"

\* the places where sub occurs in s
Places(s, sub) ==
    {i \in 1..(Len(s) - Len(sub) + 1) : SubSeq(s, i, i + Len(sub) - 1) = sub}

\* how often sub occurs in s
Count(s, sub) == Cardinality(Places(s, sub))

\* the first and the last place of sub in s, 0 if none
FirstPlace(s, sub) ==
    The({ IF P = {} THEN 0 ELSE CHOOSE i \in P : \A j \in P : i <= j
          : P \in {Places(s, sub)} })

LastPlace(s, sub) ==
    The({ IF P = {} THEN 0 ELSE CHOOSE i \in P : \A j \in P : i >= j
          : P \in {Places(s, sub)} })

\* ---- C17 ----
\* Build of the CREATE TABLE builder returns an error, and the empty string
\* with it, exactly when the database name, the table name or the engine is
\* empty or there is no column; whatever else the builder holds, it succeeds.
C17_CreateValidation ==
    CreateBuilder =>
        \A i \in 1..Len(built) :
           /\ built[i].err # NoErr
                 <=> \/ q.databaseName = ""
                     \/ q.tableName = ""
                     \/ q.engine = ""
                     \/ Len(q.columns) = 0
           /\ built[i].err # NoErr => built[i].sql = ""
           /\ built[i].err = NoErr => built[i].sql # ""

\* the engine alone is missing, after other setters were called
C17_Witness ==
    /\ CreateBuilder
    /\ q.databaseName = "db" /\ q.tableName = "t" /\ Len(q.columns) = 2
    /\ q.engine = ""
    /\ q.orderBy = <<"id">> /\ q.comment = "events" /\ q.clusterName = "c"
    /\ Len(built) = 1
    /\ built[1] = [sql |-> "", err |-> "engine cannot be empty for CREATE TABLE queries"]

\* the keyword that opens each clause of CREATE TABLE but the table comment,
\* in the order of the claim, and whether the builder was given the clause
ClauseMarks(b) ==
    << [kw |-> "CREATE TABLE " \o backtick(b.databaseName) \o "."
                  \o backtick(b.tableName), on |-> TRUE],
       [kw |-> " ON CLUSTER ", on |-> b.clusterName # Nil],
       [kw |-> " (" \o backtick(b.columns[1].name) \o " ", on |-> TRUE],
       [kw |-> " ENGINE = ", on |-> TRUE],
       [kw |-> " ORDER BY (", on |-> Len(b.orderBy) > 0],
       [kw |-> " PARTITION BY ", on |-> b.partitionBy # Nil],
       [kw |-> " PRIMARY KEY (", on |-> Len(b.primaryKey) > 0],
       [kw |-> " SAMPLE BY ", on |-> b.sampleBy # Nil],
       [kw |-> " TTL ", on |-> b.ttl # Nil],
       [kw |-> " SETTINGS ", on |-> DOMAIN b.settings # {}],
       [kw |-> ";", on |-> TRUE] >>

\* sql holds the clauses of the builder b in the order of ClauseMarks, each
\* once if given and not at all otherwise, the columns in the order of
\* b.columns, and the table comment, if given, last before the ";"
ClausesInOrder(b, sql) ==
    \E marks \in {ClauseMarks(b)} :
       \E pos \in {[k \in 1..Len(marks) |-> FirstPlace(sql, marks[k].kw)]} :
          /\ \A k \in 1..Len(marks) :
                Count(sql, marks[k].kw) = IF marks[k].on THEN 1 ELSE 0
          /\ \A k, l \in 1..Len(marks) :
                k < l /\ marks[k].on /\ marks[l].on => pos[k] < pos[l]
          /\ pos[1] = 1
          /\ pos[Len(marks)] = Len(sql)
          /\ \A i, j \in 1..Len(b.columns) :
                \E ci \in {FirstPlace(sql, backtick(b.columns[i].name) \o " "
                                          \o b.columns[i].type)},
                   cj \in {FirstPlace(sql, backtick(b.columns[j].name) \o " "
                                          \o b.columns[j].type)} :
                   /\ pos[3] < ci /\ ci < pos[4]
                   /\ i < j => ci < cj
          /\ Count(sql, " COMMENT ")
                = Cardinality({i \in 1..Len(b.columns) : b.columns[i].comment # Nil})
                  + (IF b.comment # Nil THEN 1 ELSE 0)
          /\ b.comment # Nil =>
                /\ LastPlace(sql, " COMMENT ") > pos[Len(marks) - 1]
                /\ LastPlace(sql, " COMMENT ") > pos[4]
                /\ LastPlace(sql, " COMMENT " \o quote(b.comment) \o ";")
                      = LastPlace(sql, " COMMENT ")

\* ---- C18 ----
\* A statement the CREATE TABLE builder returns holds its clauses in the order
\* table identity, ON CLUSTER, column list in the order of the columns given,
\* ENGINE, ORDER BY, PARTITION BY, PRIMARY KEY, SAMPLE BY, TTL, SETTINGS,
\* COMMENT, ";": each at most once, an optional one only if it was given, in
\* whatever order the setters were called.
C18_ClauseOrder ==
    CreateBuilder =>
        \A i \in 1..Len(built) :
           built[i].err = NoErr => ClausesInOrder(q, built[i].sql)

\* every clause was given
C18_Witness ==
    /\ CreateBuilder
    /\ Len(q.columns) = 2
    /\ q.clusterName = "c" /\ q.orderBy = <<"id">> /\ q.partitionBy # Nil
    /\ q.primaryKey = <<"id">> /\ q.sampleBy # Nil /\ q.ttl # Nil
    /\ Cardinality(DOMAIN q.settings) = 2 /\ q.comment = "events"
    /\ Len(built) = 1
    /\ built[1].err = NoErr
    /\ FirstPlace(built[1].sql, " ENGINE = MergeTree() ORDER BY (") > 0
    /\ FirstPlace(built[1].sql, " COMMENT 'events';") > 0

\* C19 as claimed: building the CREATE TABLE statement twice from the same
\* builder returns the same text both times, also with two or more settings
\* (the SETTINGS pairs come in one fixed order).
C19_Claim ==
    CreateBuilder =>
        \A i, j \in 1..Len(built) : built[i] = built[j]

\* sql is one ALTER TABLE statement of the builder b without a ";": after the
\* table and the ON CLUSTER clause, if a cluster is named, one clause kw per
\* name, in the order of names, joined by ","
AlterClauses(b, sql, kw, names) ==
    /\ Count(sql, ";") = 0
    /\ Places(sql, "ALTER TABLE ") = {1}
    /\ FirstPlace(sql, "ALTER TABLE " \o backtick(b.databaseName) \o "."
                           \o backtick(b.tableName)) = 1
    /\ Count(sql, " ON CLUSTER ")
          = IF b.clusterName # Nil /\ b.clusterName # "" THEN 1 ELSE 0
    /\ Count(sql, kw) = Len(names)
    /\ Count(sql, "," \o kw) = Len(names) - 1
    /\ Places(sql, kw) = {FirstPlace(sql, kw \o backtick(names[i])) : i \in 1..Len(names)}
    /\ \A i, j \in 1..Len(names) :
          i < j => FirstPlace(sql, kw \o backtick(names[i]))
                      < FirstPlace(sql, kw \o backtick(names[j]))
    /\ \A i \in Places(sql, kw) : FirstPlace(sql, " ON CLUSTER ") < i

\* ---- C20 ----
\* Build of the ADD COLUMN builder and of the DROP COLUMN builder fails exactly
\* when the database name, the table name or the list is empty; otherwise it
\* returns one statement without ";" that holds, after the optional ON CLUSTER
\* clause, one ADD COLUMN (DROP COLUMN) clause per entry of the list, in the
\* order of the list and joined by commas.
C20_AlterColumns ==
    /\ q # None /\ q.builder = "AlterTableAddColumnQueryBuilder" =>
          \A i \in 1..Len(built) :
             /\ built[i].err # NoErr
                   <=> q.databaseName = "" \/ q.tableName = "" \/ Len(q.columns) = 0
             /\ built[i].err # NoErr => built[i].sql = ""
             /\ built[i].err = NoErr =>
                   AlterClauses(q, built[i].sql, " ADD COLUMN ",
                                [k \in 1..Len(q.columns) |-> q.columns[k].name])
    /\ q # None /\ q.builder = "AlterTableDropColumnQueryBuilder" =>
          \A i \in 1..Len(built) :
             /\ built[i].err # NoErr
                   <=> q.databaseName = "" \/ q.tableName = ""
                       \/ Len(q.columnNames) = 0
             /\ built[i].err # NoErr => built[i].sql = ""
             /\ built[i].err = NoErr =>
                   AlterClauses(q, built[i].sql, " DROP COLUMN ", q.columnNames)

\* two columns are added on a cluster
C20_Witness ==
    /\ q # None /\ q.builder = "AlterTableAddColumnQueryBuilder"
    /\ Len(q.columns) = 2 /\ q.columns[1].name = "ts" /\ q.columns[2].name = "id"
    /\ q.clusterName = "c"
    /\ Len(built) = 1
    /\ built[1].err = NoErr
    /\ Count(built[1].sql, " ADD COLUMN ") = 2
    /\ FirstPlace(built[1].sql, " ON CLUSTER 'c' ADD COLUMN ") > 0
    /\ FirstPlace(built[1].sql, " COMMENT 'event time', ADD COLUMN ") > 0

\* ------------------------------------------ the claims about terraform import
\* C21: ImportState accepts an ID only if it splits on ":" into two parts
\* (database:ref) or three (cluster:database:ref); any other ID is rejected
\* with an error, no query sent and no state written.  The ref is first parsed
\* as a UUID: if that succeeds no query is sent and the state carries the ref
\* as its uuid; if it fails the first query is the lookup of the uuid by
\* database and name, a state that is written carries the uuid the catalog
\* has for that name, and a name the catalog does not have is an error that
\* writes no state.
C21_Import ==
    [][op' = "ImportState" =>
        \E parts \in {Split(plan'[1].id, ":")} :
           IF Len(parts) \notin {2, 3}
           THEN HasError(diags') /\ sent' = <<>> /\ state' = None
           ELSE \E cluster \in {IF Len(parts) = 3 THEN parts[1] ELSE Nil},
                   db \in {parts[Len(parts) - 1]},
                   ref \in {parts[Len(parts)]} :
                   IF ref \in {UuidText(n) : n \in 0..9}
                   THEN /\ sent' = <<>>
                        /\ ~HasError(diags')
                        /\ state' # None
                        /\ UuidText(state'[1].uuid) = ref
                        /\ state'[1].database_name = db
                   ELSE /\ sent' # <<>>
                        /\ sent'[1] = SelectUuidByName(db, ref, cluster)
                        /\ state' # None =>
                              /\ ~HasError(diags')
                              /\ \E r \in catalog :
                                    /\ r.database = db
                                    /\ r.name = ref
                                    /\ r.uuid = state'[1].uuid
                        /\ (\A r \in catalog : ~(r.database = db /\ r.name = ref)) =>
                              /\ HasError(diags')
                              /\ ~panicked'
                              /\ state' = None]_vars

\* an import by cluster, database and name wrote the state of the table found
C21_Witness ==
    /\ op = "ImportState"
    /\ Len(Split(plan[1].id, ":")) = 3
    /\ sent # <<>>
    /\ ~HasError(diags)
    /\ state # None
    /\ \E r \in catalog : r.uuid = state[1].uuid /\ r.name = state[1].name

\* C22: A Read or Update that leaves a state leaves it with the uuid of the
\* state it was given, after a Create as after an import; and Read and Delete
\* locate the table by that uuid: their first query selects the table by the
\* uuid of the state, they never look a uuid up by name, and the columns they
\* read are those of the name the catalog holds for the uuid.
C22_UuidStable ==
    [][/\ (op' \in {"Read", "Update"} /\ state # None /\ state' # None) =>
              state'[1].uuid = state[1].uuid
       /\ (op' \in {"Read", "Delete"} /\ state # None) =>
              /\ sent' # <<>>
                    => sent'[1] = SelectTablesByUuid(state[1].uuid,
                                                     state[1].cluster_name)
              /\ \A i \in 1..Len(sent') :
                    /\ sent'[i].kind # "SELECT uuid BY name"
                    /\ sent'[i].kind = "SELECT columns" =>
                          \E r \in catalog :
                             /\ r.uuid = state[1].uuid
                             /\ r.name = sent'[i].name]_vars

\* a Read of a state whose stored name is not the table's found the table by
\* its uuid and kept the uuid
C22_Witness ==
    /\ op = "Read"
    /\ prior # None
    /\ state # None
    /\ ~HasError(diags)
    /\ state[1].uuid = prior[1].uuid
    /\ state[1].name # prior[1].name
    /\ Len(sent) = 2

\* ------------------------- the claims about the statements of one operation
\* C23: Within one Create, Update or Delete every statement has had its reply
\* before the next is sent, no DDL statement is sent twice, only the last
\* statement can have returned an error, and then the operation reports an
\* error and the persisted state stays what it was before the operation.
C23_FailFast ==
    op \in {"Create", "Update", "Delete"} =>
        /\ Len(replies) = Len(sent)
        /\ \A i \in 1..Len(replies) : replies[i] = "error" => i = Len(replies)
        /\ \A i, j \in 1..Len(sent) :
              (i < j /\ sent[i].kind \in DDLKinds) => sent[i] # sent[j]
        /\ (Len(replies) > 0 /\ replies[Len(replies)] = "error") =>
              /\ HasError(diags)
              /\ ~panicked
              /\ state = prior

\* an Update whose ADD COLUMN failed after its DROP COLUMN had succeeded sent
\* nothing further, reported the error and kept the prior state
C23_Witness ==
    /\ op = "Update"
    /\ Len(sent) = 2
    /\ sent[1].kind = "DROP COLUMN"
    /\ sent[2].kind = "ADD COLUMN"
    /\ replies = <<"ok", "error">>
    /\ HasError(diags)
    /\ state = prior

\* ------------------------------------ the claims about the descriptor parser
\* C24: The parser returns as TTL the trimmed text between the first "TTL "
\* and the " SETTINGS" that follows it, or the end of the text, and the empty
\* text when there is no "TTL "; it returns as settings the pairs that follow
\* "SETTINGS ", split at the commas and at "=", keys and values trimmed.  A
\* descriptor written as <engine> TTL <t> SETTINGS k1 = v1, k2 = v2 so parses
\* back to t and to {k1: v1, k2: v2}.
C24_Parse ==
    op = "parseEngineFullForTTLAndSettings" =>
        /\ ret[1].ttl = (IF call[1].ttl = None THEN "" ELSE call[1].ttl[1])
        /\ DOMAIN ret[1].settings
              = {call[1].settings[i][1] : i \in 1..Len(call[1].settings)}
        /\ \A i \in 1..Len(call[1].settings) :
              ret[1].settings[call[1].settings[i][1]] = call[1].settings[i][2]

\* a descriptor with a TTL of two comma-separated rules and two settings was
\* parsed
C24_Witness ==
    /\ op = "parseEngineFullForTTLAndSettings"
    /\ call[1].text = "MergeTree ORDER BY a TTL d + toIntervalDay(1), "
                      \o "e + toIntervalYear(1) DELETE SETTINGS "
                      \o "index_granularity = 8192, storage_policy = 'hot'"
    /\ ret[1].ttl = "d + toIntervalDay(1), e + toIntervalYear(1) DELETE"
    /\ DOMAIN ret[1].settings = {"index_granularity", "storage_policy"}

\* ------------------------------------------- the claims about the columns
\* C25: After a Create, a Read or an Update that reported no error and left a
\* state, the columns of the state are those the catalog holds for the table:
\* as many, in the same order, each with the same name and type, and with a
\* default and a comment that are absent where the catalog's are empty and
\* equal to the catalog's otherwise.
C25_Columns ==
    (op \in {"Create", "Read", "Update"} /\ ~HasError(diags) /\ state # None) =>
        \A r \in catalog :
           r.uuid = state[1].uuid =>
              /\ Len(state[1].columns) = Len(r.columns)
              /\ \A i \in 1..Len(r.columns) :
                    /\ state[1].columns[i].name = r.columns[i].name
                    /\ state[1].columns[i].type = r.columns[i].type
                    /\ state[1].columns[i].default
                          = (IF r.columns[i].default_expression = "" THEN Nil
                             ELSE r.columns[i].default_expression)
                    /\ state[1].columns[i].comment
                          = (IF r.columns[i].comment = "" THEN Nil
                             ELSE r.columns[i].comment)

\* a Read wrote two columns, one with a default and a comment and one without
C25_Witness ==
    /\ op = "Read"
    /\ ~HasError(diags)
    /\ state # None
    /\ \E r \in catalog : r.uuid = state[1].uuid /\ Len(r.columns) = 2
    /\ Len(state[1].columns) = 2
    /\ \E i, j \in 1..2 :
          /\ state[1].columns[i].default = "0"
          /\ state[1].columns[i].comment = "note"
          /\ state[1].columns[j].default = Nil
          /\ state[1].columns[j].comment = Nil

\* ------------------------------------------ the claims about a failed Update
\* C26: An Update that reports an error has no effect: the persisted state is
\* the state of before, and every table that is still in the catalog has the
\* columns it had before the Update.
C26_Claim ==
    [][(op' = "Update" /\ HasError(diags')) =>
          /\ state' = state
          /\ \A r \in catalog, after \in catalog' :
                after.uuid = r.uuid => after.columns = r.columns]_vars

\* C27: Every DDL statement of an Update (ALTER TABLE ... ADD or DROP COLUMN)
\* and of a Delete (DROP TABLE) names the database and the table that the
\* catalog holds, when the operation starts, for the uuid of the state.
C27_Claim ==
    [][(op' \in {"Update", "Delete"} /\ state # None) =>
          \A i \in 1..Len(sent') :
             sent'[i].kind \in DDLKinds =>
                \E r \in catalog :
                   /\ r.uuid = state[1].uuid
                   /\ sent'[i].database = r.database
                   /\ sent'[i].name = r.name]_vars

\* C28: An Update that reports no error writes a state that is not null and
\* carries the uuid of the state it was given.
C28_Claim ==
    (op = "Update" /\ ~HasError(diags)) =>
        /\ state # None
        /\ state[1].uuid = prior[1].uuid

\* ------------------------------------------- the claims about allow_drops
\* C29: A Create or an Update that succeeds writes the allow_drops of its
\* plan into the state, and one that fails leaves the state as it was; a Read
\* that leaves a state leaves its allow_drops as it found it; an import
\* leaves allow_drops unset.  Delete decides on the allow_drops of the state
\* it is given: unless that is true it reports an error, sends nothing and
\* leaves catalog and state alone, so a DROP TABLE is only ever sent for a
\* state whose allow_drops is true.
C29_AllowDrops ==
    [][/\ (op' \in {"Create", "Update"} /\ state' # None
              /\ ~HasError(diags') /\ ~panicked') =>
              state'[1].allow_drops = plan'[1].allow_drops
       /\ (op' \in {"Create", "Update"} /\ (HasError(diags') \/ panicked')) =>
              state' = state
       /\ (op' = "Read" /\ state' # None) =>
              state'[1].allow_drops = state[1].allow_drops
       /\ (op' = "ImportState" /\ state' # None) =>
              state'[1].allow_drops = Nil
       /\ (op' = "Delete" /\ state[1].allow_drops # "true") =>
              /\ HasError(diags')
              /\ sent' = <<>>
              /\ catalog' = catalog
              /\ state' = state
       /\ (op' = "Delete"
              /\ \E i \in 1..Len(sent') : sent'[i].kind = "DROP TABLE") =>
              state[1].allow_drops = "true"]_vars

\* after an import and its Read, a Delete was refused and the table is still
\* there
C29_Witness ==
    /\ op = "Delete"
    /\ prior # None
    /\ prior[1].allow_drops = Nil
    /\ prior[1].columns # <<>>
    /\ HasError(diags)
    /\ sent = <<>>
    /\ state = prior
    /\ \E r \in catalog : r.uuid = state[1].uuid

\* --------------------------------------- the claims about the ON CLUSTER clause
\* the statements the four builders return for the table `db`.`t` and the
\* cluster argument c, everything else being valid
OnClusterBuilds(c) ==
    {createTableQueryBuilderBuild(
         [NewCreateTable("db", "t", <<BuilderColumns.id>>)
             EXCEPT !.engine = "MergeTree()", !.clusterName = c], <<>>),
     dropTableQueryBuilderBuild([NewDropTable("db", "t") EXCEPT !.clusterName = c]),
     AlterTableAddColumnQueryBuilderBuild(
         [NewAlterTableAddColumn("db", "t", <<BuilderColumns.id>>)
             EXCEPT !.clusterName = c]),
     AlterTableDropColumnQueryBuilderBuild(
         [NewAlterTableDropColumn("db", "t", <<"id">>) EXCEPT !.clusterName = c])}

\* C30: For the cluster argument of a builder that has built a statement
\* (absent, the empty text, or a name), the CREATE TABLE, DROP TABLE, ADD
\* COLUMN and DROP COLUMN builders all return a statement, and either each
\* statement holds ON CLUSTER '<name>' directly after the table identity or
\* none holds an ON CLUSTER clause.
C30_Claim ==
    (built # <<>> /\ built[1].err = NoErr) =>
        \E c \in {q.clusterName} :
           /\ \A r \in OnClusterBuilds(c) : r.err = NoErr
           /\ \/ \A r \in OnClusterBuilds(c) :
                    Count(r.sql, backtick("db") \o "." \o backtick("t")
                                 \o " ON CLUSTER " \o quote(c)) = 1
              \/ \A r \in OnClusterBuilds(c) : Count(r.sql, " ON CLUSTER ") = 0

====
